---------------------------- MODULE Spec2Model ----------------------------
(***************************************************************************)
(* A model of the RabbitMQ integration layer of the payment service:       *)
(* the shared connection/channel owned by RabbitMQService, the durable     *)
(* work-queue consumers (IntermediateConsumer), the topic-exchange         *)
(* consumers (AdvancedConsumer), and the RPC server with bounded retry and *)
(* dead-lettering (ExpertConsumer), together with the part of the broker   *)
(* (queues, bindings, unacknowledged deliveries) those components rely on. *)
(***************************************************************************)
EXTENDS Integers, Sequences, FiniteSets, TLC

VARIABLES
  channel,      \* RabbitMQService.channel: a channel id, or NoChannel (null)
  connection,   \* RabbitMQService.connection: a connection id, or NoChannel
  connOpen,     \* broker: ids of the open connections
  chanOpen,     \* broker: ids of the open channels (channel i lives on connection i)
  nextConn,     \* number of connections opened so far
  declared,     \* broker: queue name -> its specification, or NoQueue
  ready,        \* broker: queue name -> sequence of messages awaiting delivery
  unacked,      \* broker: deliveries handed to a consumer and not yet settled
  bindings,     \* broker: bindings of queues to the exchange payment_events
  consuming,    \* broker: registered consumers, [queue, chan]
  store,        \* payment record store: payment id -> status, or Absent
  tasks,        \* running consumer callbacks, one record per delivery
  calls,        \* running publish operations of RabbitMQService
  nextMid,      \* number of messages published so far
  nextTag,      \* number of deliveries made so far
  settled,      \* history: how each finished callback settled its delivery
  events,       \* history: messages the exchange payment_events routed, and where to
  dlqLog,       \* history: messages accepted by payment_processing.dlq
  ops,          \* history: channel operations issued by the program
  rejections    \* number of promise rejections no handler caught

vars == << channel, connection, connOpen, chanOpen, nextConn, declared, ready,
           unacked, bindings, consuming, store, tasks, calls, nextMid, nextTag,
           settled, events, dlqLog, ops, rejections >>

----------------------------------------------------------------------------
(* Bounds of the model. *)

MaxDeliveries == 3    \* deliveries made by the broker in one behaviour
MaxLinkLoss == 1      \* connection losses in one behaviour
MaxCalls == 2         \* publish operations of RabbitMQService in one behaviour
MaxRequests == 2      \* RPC requests sent by clients in one behaviour
MaxOffered == 2       \* messages offered to the nine callbacks in one behaviour

----------------------------------------------------------------------------
(* Names that are part of the wire contract. *)

NoChannel == 0
NoQueue == [ durable |-> FALSE, ttl |-> -1 ]
Absent == "ABSENT"
Undefined == "undefined"

paymentQueue == "payment_processing"
fraudCheckQueue == "fraud_check"
exchange == "payment_events"

Queues == { "payments", "payment_processing", "fraud_check", "approved_payments",
            "refund_requests", "email_notifications", "audit_logs",
            "payment_rpc", "payment_processing.dlq", "rpc_reply" }

PaymentIds == { "p1", "p2" }

QueueSpec(durable, ttl) == [ durable |-> durable, ttl |-> ttl ]


----------------------------------------------------------------------------
(* Messages.  Every message is a record of the same shape; a field the     *)
(* sender did not set holds Undefined.  wellFormed = FALSE stands for      *)
(* content a callback cannot read: text JSON.parse rejects, or the text    *)
(* "null", whose fields cannot be read.                                     *)

NoReason == [ prefix |-> Undefined, detail |-> Undefined ]

(* What an RPC handler answers; a field the handler did not set holds      *)
(* Undefined.                                                               *)
NoResponse ==
  [ success |-> Undefined, id |-> Undefined, paymentId |-> Undefined,
    retries |-> Undefined,
    error |-> Undefined, sentToDLQ |-> Undefined, status |-> Undefined,
    amount |-> Undefined ]

BlankMessage ==
  [ mid |-> 0, redelivered |-> FALSE, wellFormed |-> TRUE,
    id |-> Undefined, paymentId |-> Undefined, amount |-> 0,
    type |-> Undefined, method |-> Undefined, rk |-> << >>,
    correlationId |-> Undefined, replyTo |-> Undefined,
    failureReason |-> NoReason, response |-> NoResponse ]

Stamp(m, n) == [ m EXCEPT !.mid = n ]

----------------------------------------------------------------------------
(* The broker and the cached link, as one record, so that the effects of   *)
(* the operations a handler performs in one step compose.                   *)

Cur ==
  [ channel |-> channel, connection |-> connection, connOpen |-> connOpen,
    chanOpen |-> chanOpen, nextConn |-> nextConn, declared |-> declared,
    ready |-> ready, unacked |-> unacked, consuming |-> consuming,
    nextMid |-> nextMid, events |-> events, dlqLog |-> dlqLog, ops |-> ops,
    log |-> << >> ]

Commit(b) ==
  /\ channel' = b.channel /\ connection' = b.connection
  /\ connOpen' = b.connOpen /\ chanOpen' = b.chanOpen /\ nextConn' = b.nextConn
  /\ declared' = b.declared /\ ready' = b.ready /\ unacked' = b.unacked
  /\ consuming' = b.consuming /\ nextMid' = b.nextMid
  /\ events' = b.events /\ dlqLog' = b.dlqLog /\ ops' = b.ops

RECURSIVE SortByTag(_)
SortByTag(S) ==
  IF S = {} THEN << >>
  ELSE LET first == CHOOSE x \in S : \A y \in S : x.tag <= y.tag
       IN  << [ first.msg EXCEPT !.redelivered = TRUE ] >> \o SortByTag(S \ {first})

(* Closing channel c returns its unsettled deliveries to the head of their *)
(* queues, marked redelivered, and cancels its consumers.                   *)
CloseChannel(b, c) ==
  [ b EXCEPT
      !.chanOpen = @ \ {c},
      !.ready = [ q \in Queues |->
                    SortByTag({ u \in b.unacked : u.chan = c /\ u.queue = q }) \o @[q] ],
      !.unacked = { u \in @ : u.chan # c },
      !.consuming = { k \in @ : k.chan # c } ]

(* Topic matching: the key and the pattern are sequences of dot-delimited  *)
(* segments; * stands for exactly one segment, # for zero or more.          *)
(* A faulty variant of Matches, in which * stands for one or more segments. *)
RECURSIVE MatchesStarGreedy(_, _)
MatchesStarGreedy(pattern, key) ==
  IF pattern = << >> THEN key = << >>
  ELSE IF key = << >> THEN FALSE
  ELSE IF Head(pattern) = "*"
       THEN \/ MatchesStarGreedy(Tail(pattern), Tail(key))
            \/ MatchesStarGreedy(pattern, Tail(key))
  ELSE IF Head(pattern) = Head(key)
       THEN MatchesStarGreedy(Tail(pattern), Tail(key))
  ELSE FALSE

RECURSIVE Matches(_, _)
Matches(pattern, key) ==
  IF pattern = << >> THEN key = << >>
  ELSE IF Head(pattern) = "#"
       THEN \/ Matches(Tail(pattern), key)
            \/ (key # << >> /\ Matches(pattern, Tail(key)))
  ELSE IF key = << >> THEN FALSE
  ELSE IF Head(pattern) = "*" \/ Head(pattern) = Head(key)
       THEN Matches(Tail(pattern), Tail(key))
  ELSE FALSE

Route(key) == { x.queue : x \in { y \in bindings : Matches(y.pattern, key) } }

ChannelState(b, ch) ==
  IF ch = NoChannel THEN "null"
  ELSE IF ch \in b.chanOpen THEN "open" ELSE "closed"

Op(name, st) == [ op |-> name, on |-> st ]

(* One entry of the log of a handler step: the channel operations the step *)
(* issues, in the order it issues them.                                     *)
Call(name, st, targets, cid) ==
  [ op |-> name, on |-> st, to |-> targets, correlationId |-> cid,
    asked |-> NoQueue, was |-> NoQueue ]

Issue(b, name, st, targets, cid) ==
  [ b EXCEPT !.ops = @ \cup { Op(name, st) },
             !.log = Append(@, Call(name, st, targets, cid)) ]

(* A broker that compares the durability of a redeclared queue and nothing *)
(* else, against which the reporting of conflicting declarations is        *)
(* tested.                                                                  *)
DeclareOkByDurability(b, q, spec) ==
  b.declared[q] = NoQueue \/ b.declared[q].durable = spec.durable

(* Declaring a queue: a new name is created, an identical specification is *)
(* a no-op, a different one is refused and the broker closes the channel.  *)
DeclareOk(b, q, spec) == b.declared[q] = NoQueue \/ b.declared[q] = spec

(* The log entry of a queue declaration: the specification asked for and   *)
(* the one the queue had.                                                   *)
DeclareCall(b, st, q, spec) ==
  [ Call("declare", st, { q }, Undefined) EXCEPT !.asked = spec,
                                                  !.was = b.declared[q] ]

(* channel.assertQueue(q, spec) issued on channel ch. *)
AssertQueue(b, ch, q, spec) ==
  LET st == ChannelState(b, ch)
      b1 == [ b EXCEPT !.ops = @ \cup { Op("declare", st) },
                       !.log = Append(@, DeclareCall(b, st, q, spec)) ]
  IN  IF st # "open" THEN b1
      ELSE IF DeclareOk(b, q, spec) THEN [ b1 EXCEPT !.declared[q] = spec ]
      ELSE CloseChannel(b1, ch)

AssertQueueOk(b, ch, q, spec) ==
  ChannelState(b, ch) = "open" /\ DeclareOk(b, q, spec)

(* channel.sendToQueue / channel.publish issued on channel ch: one copy of *)
(* m is appended to every queue in targets.                                 *)
Send(b, ch, targets, m) ==
  LET st == ChannelState(b, ch)
      b1 == Issue(b, "publish", st, targets, m.correlationId)
      sent == [ m EXCEPT !.mid = b.nextMid + 1 ]
  IN  IF st # "open" THEN b1
      ELSE [ b1 EXCEPT
               !.nextMid = @ + 1,
               !.ready = [ q \in Queues |-> IF q \in targets THEN Append(@[q], sent)
                                            ELSE @[q] ],
               !.events = IF m.rk # << >>
                          THEN @ \cup { [ msg |-> sent, to |-> targets ] } ELSE @,
               !.dlqLog = IF "payment_processing.dlq" \in targets THEN @ \cup { sent }
                          ELSE @ ]

(* channel.ack(msg) and channel.nack(msg, false, requeue) issued on the    *)
(* channel the delivery came from.                                          *)
Ack(b, ch, tag) ==
  LET st == ChannelState(b, ch)
      b1 == Issue(b, "ack", st, { }, Undefined)
  IN  IF st # "open" THEN b1
      ELSE [ b1 EXCEPT !.unacked = { u \in @ : u.tag # tag } ]

Nack(b, ch, tag, requeue) ==
  LET st == ChannelState(b, ch)
      b1 == Issue(b, "nack", st, { }, Undefined)
      us == { u \in b.unacked : u.tag = tag }
  IN  IF st # "open" THEN b1
      ELSE [ b1 EXCEPT
               !.unacked = @ \ us,
               !.ready = IF requeue
                         THEN [ q \in Queues |->
                                  SortByTag({ u \in us : u.queue = q }) \o @[q] ]
                         ELSE @ ]


----------------------------------------------------------------------------
(* The state once the module has started: RabbitMQService.onModuleInit has *)
(* connected, and every consumer has declared, bound and subscribed.       *)

dlqTtl == 3600000

paymentsSpec == QueueSpec(FALSE, 0)
durableSpec == QueueSpec(TRUE, 0)
dlqSpec == QueueSpec(TRUE, dlqTtl)

routingPatterns ==
  [ approve  |-> << "payment", "credit", "approve" >>,
    decline  |-> << "payment", "credit", "decline" >>,
    refund   |-> << "payment", "refund" >>,
    complete |-> << "payment", "complete" >>,
    fraud    |-> << "payment", "fraud", "detect" >> ]

wildcardPattern == << "payment", "*" >>

approvedBinding == [ queue |-> "approved_payments", pattern |-> routingPatterns.approve ]

refundBindingOneDeeper ==
  [ queue |-> "refund_requests", pattern |-> << "payment", "refund", "*" >> ]

refundBinding == [ queue |-> "refund_requests", pattern |-> routingPatterns.refund ]

emailBinding == [ queue |-> "email_notifications", pattern |-> wildcardPattern ]

auditBinding == [ queue |-> "audit_logs", pattern |-> wildcardPattern ]

StartupBindings == { approvedBinding, refundBinding, emailBinding, auditBinding }

StartupDeclared ==
  [ q \in Queues |->
      IF q = "payments" THEN paymentsSpec
      ELSE IF q = "payment_processing.dlq" THEN dlqSpec
      ELSE IF q = "rpc_reply" THEN QueueSpec(FALSE, 0)
      ELSE durableSpec ]

ConsumedQueues == Queues \ { "rpc_reply" }

(* The prefetch count in force when each consumer subscribed: the count of *)
(* the last channel.prefetch call made on the shared channel before its    *)
(* channel.consume, with each onModuleInit run on its own.  0 is the       *)
(* broker's default, no limit.                                              *)
prefetch ==
  [ q \in Queues |->
      IF q \in { "email_notifications", "audit_logs" } THEN 10
      ELSE IF q = "payments" THEN 0
      ELSE 1 ]

amountOf == [ p \in PaymentIds |-> IF p = "p1" THEN 50 ELSE 15000 ]

Started ==
  /\ channel = 1 /\ connection = 1
  /\ connOpen = {1} /\ chanOpen = {1} /\ nextConn = 1
  /\ declared = StartupDeclared
  /\ ready = [ q \in Queues |-> << >> ]
  /\ unacked = {}
  /\ bindings = StartupBindings
  /\ consuming = { [ queue |-> q, chan |-> 1 ] : q \in ConsumedQueues }
  /\ tasks = {} /\ calls = {}
  /\ nextMid = 0 /\ nextTag = 0
  /\ settled = {} /\ events = {} /\ dlqLog = {} /\ ops = {}
  /\ rejections = 0

----------------------------------------------------------------------------
(* Loss of a connection.  The broker drops the connection's channel; the   *)
(* 'close' handler that connect() registered clears the cached link.       *)

(* A 'close' handler that leaves the cached link as it is, against which   *)
(* the clearing of the cache is tested.                                     *)
onConnectionCloseKeepsCache(b) == b

onConnectionClose(b) ==
  [ b EXCEPT !.channel = NoChannel, !.connection = NoChannel ]

ConnectionLost(c) ==
  /\ c \in connOpen
  /\ nextConn - Cardinality(connOpen) < MaxLinkLoss
  /\ Commit(onConnectionClose([ CloseChannel(Cur, c) EXCEPT !.connOpen = @ \ {c} ]))
  /\ UNCHANGED << bindings, store, tasks, calls, nextTag, settled, rejections >>

----------------------------------------------------------------------------
(* RabbitMQService: errors and the publish operations.                     *)

ErrTypeError == [ code |-> Undefined, message |-> "Cannot read properties of null" ]
ErrChannelClosed == [ code |-> Undefined, message |-> "Channel closed" ]
ErrConnReset == [ code |-> "ECONNRESET", message |-> "read ECONNRESET" ]
ErrConnRefused == [ code |-> "ECONNREFUSED", message |-> "connect ECONNREFUSED" ]
ErrPrecondition == [ code |-> "406", message |-> "PRECONDITION_FAILED" ]
ErrInvalidPayment == [ code |-> Undefined, message |-> "Invalid payment data provided" ]
ErrNotFound == [ code |-> Undefined, message |-> "Payment not found" ]
ErrProvider == [ code |-> Undefined, message |-> "Payment processing failed" ]
NoError == [ code |-> Undefined, message |-> "" ]

IncludesClosed(message) == message \in { "Channel closed", "Connection closed" }

isChannelError(error) ==
  \/ error.code = "ECONNRESET"
  \/ IncludesClosed(error.message)

(* A variant of PublishError that keeps a closed channel to itself,        *)
(* against which the outcomes of the enqueue operations are tested.         *)
PublishErrorButClosed(b, ch, q, spec) ==
  LET st == ChannelState(b, ch)
  IN  IF st = "null" THEN ErrTypeError
      ELSE IF st = "open" /\ ~DeclareOk(b, q, spec) THEN ErrPrecondition
      ELSE NoError

(* The error of `await ch.assertQueue(q, spec)` followed by a send. *)
PublishError(b, ch, q, spec) ==
  LET st == ChannelState(b, ch)
  IN  IF st = "null" THEN ErrTypeError
      ELSE IF st = "closed" THEN ErrChannelClosed
      ELSE IF ~DeclareOk(b, q, spec) THEN ErrPrecondition
      ELSE NoError

AssertThenSend(b, ch, q, spec, targets, m) ==
  LET b1 == AssertQueue(b, ch, q, spec)
  IN  IF AssertQueueOk(b, ch, q, spec) THEN Send(b1, ch, targets, m) ELSE b1

NewCall(name) ==
  [ id |-> Cardinality(calls) + 1, op |-> name, pc |-> "ensure", attempt |-> 1,
    reconnects |-> 0, publishes |-> 0, failures |-> 0, payment |-> Undefined,
    result |-> "pending", first |-> NoError, error |-> NoError,
    issued |-> << >>, connects |-> << >> ]

Finish(c, res, err) == [ c EXCEPT !.pc = "done", !.result = res, !.error = err ]

PaymentMessage(p) == [ BlankMessage EXCEPT !.id = p, !.amount = amountOf[p] ]

(* sendToPaymentQueue, entry: the guard on payment.id. *)
sendToPaymentQueue(p) ==
  /\ Cardinality(calls) < MaxCalls
  /\ calls' = calls \cup
       { IF p = Undefined
         THEN Finish(NewCall("sendToPaymentQueue"), "threw", ErrInvalidPayment)
         ELSE [ NewCall("sendToPaymentQueue") EXCEPT !.payment = p ] }
  /\ UNCHANGED << channel, connection, connOpen, chanOpen, nextConn, declared,
                  ready, unacked, bindings, consuming, store, tasks, nextMid,
                  nextTag, settled, events, dlqLog, ops, rejections >>

(* connect(), up to its first wait for the network: a cached channel is   *)
(* closed, errors swallowed.  This runs in the turn that invokes connect(). *)
connectEntry(b) ==
  IF b.channel # NoChannel /\ b.channel \in b.chanOpen
  THEN CloseChannel(b, b.channel) ELSE b

(* What a call notes of a connect() it invokes on b: the cached link, and  *)
(* whether its channel and connection were open, and whether its          *)
(* channel.close() closed a channel; opened is filled in when the          *)
(* connection is made.                                                      *)
Invoked(b) ==
  [ channel |-> b.channel, connection |-> b.connection,
    live |-> ChannelState(b, b.channel) = "open" /\ b.connection \in b.connOpen,
    closed |-> connectEntry(b).chanOpen # b.chanOpen,
    opened |-> NoChannel ]

(* The catch block of sendToPaymentQueue: a channel error caught on the    *)
(* first attempt leads to connect() and one more attempt; anything else is *)
(* thrown to the caller.                                                    *)
Reconnects(c, err) == c.attempt = 1 /\ isChannelError(err)

Caught(b, c, err) ==
  IF Reconnects(c, err)
  THEN [ c EXCEPT !.attempt = 2, !.reconnects = @ + 1, !.failures = @ + 1,
                  !.first = err, !.pc = "connect",
                  !.connects = Append(@, Invoked(b)) ]
  ELSE Finish([ c EXCEPT !.failures = @ + 1, !.first = err ], "threw", err)

(* sendToQueueWithRetry from ensureChannel on: with a cached link the queue *)
(* is asserted and the message sent; without one connect() is invoked.     *)
ensureChannel(c) ==
  /\ c \in calls /\ c.pc = "ensure"
  /\ LET has == channel # NoChannel /\ connection # NoChannel
         err == PublishError(Cur, channel, "payments", paymentsSpec)
         b1 == AssertThenSend(Cur, channel, "payments", paymentsSpec,
                              { "payments" }, PaymentMessage(c.payment))
         c1 == [ c EXCEPT !.issued = @ \o b1.log ]
     IN  /\ Commit(IF ~has THEN connectEntry(Cur)
                   ELSE IF Reconnects(c, err) THEN connectEntry(b1) ELSE b1)
         /\ calls' = (calls \ {c}) \cup
              { IF ~has
                THEN [ c EXCEPT !.pc = "connect",
                                !.connects = Append(@, Invoked(Cur)) ]
                ELSE IF err = NoError
                THEN Finish([ c1 EXCEPT !.publishes = @ + 1 ], "returned", NoError)
                ELSE Caught(b1, c1, err) }
  /\ UNCHANGED << bindings, store, tasks, nextTag, settled, rejections >>

(* How amqp.connect may end: the connection is made, the broker refuses    *)
(* it, or the socket is reset while it is being set up.                     *)
ConnectOutcomes == { NoError, ErrConnRefused, ErrConnReset }

(* connect(), from amqp.connect on: a new connection and channel are       *)
(* opened and cached; the caller then asserts the queue and sends.  When   *)
(* amqp.connect throws inside the try block of the first attempt, the      *)
(* catch block decides as for any other error.                              *)
connectOpen(c, fail) ==
  /\ c \in calls /\ c.pc = "connect"
  /\ LET n == nextConn + 1
         b0 == [ Cur EXCEPT !.nextConn = n, !.connOpen = @ \cup {n},
                            !.chanOpen = @ \cup {n}, !.channel = n,
                            !.connection = n ]
         err == PublishError(b0, n, "payments", paymentsSpec)
         b1 == AssertThenSend(b0, n, "payments", paymentsSpec, { "payments" },
                              PaymentMessage(c.payment))
         c1 == [ c EXCEPT !.issued = @ \o b1.log,
                          !.connects[Len(c.connects)].opened = n ]
     IN  /\ Commit(IF fail = NoError THEN b1
                   ELSE IF Reconnects(c, fail) THEN connectEntry(Cur) ELSE Cur)
         /\ calls' = (calls \ {c}) \cup
              { IF fail # NoError
                THEN IF c.attempt = 1 THEN Caught(Cur, c, fail)
                     ELSE Finish([ c EXCEPT !.failures = @ + 1 ], "threw", fail)
                ELSE IF err = NoError
                THEN Finish([ c1 EXCEPT !.publishes = @ + 1 ], "returned", NoError)
                ELSE Finish([ c1 EXCEPT !.failures = @ + 1 ], "threw", err) }
  /\ UNCHANGED << bindings, store, tasks, nextTag, settled, rejections >>

(* The three operations that use this.channel as it is. *)
Direct(name, err, after) ==
  /\ Cardinality(calls) < MaxCalls
  /\ Commit(after)
  /\ calls' = calls \cup
       { IF err = NoError
         THEN Finish([ NewCall(name) EXCEPT !.publishes = 1, !.issued = after.log ],
                     "returned", NoError)
         ELSE Finish([ NewCall(name) EXCEPT !.failures = 1, !.first = err,
                                            !.issued = after.log ],
                     "threw", err) }
  /\ UNCHANGED << bindings, store, tasks, nextTag, settled, rejections >>

sendToWorkQueue(queueName, task) ==
  Direct("sendToWorkQueue",
         PublishError(Cur, channel, queueName, durableSpec),
         AssertThenSend(Cur, channel, queueName, durableSpec, { queueName }, task))

(* assertExchange declares the exchange as every other place does, so it   *)
(* fails only for want of an open channel.                                  *)
ExchangeError(b, ch) ==
  LET st == ChannelState(b, ch)
  IN  IF st = "null" THEN ErrTypeError
      ELSE IF st = "closed" THEN ErrChannelClosed ELSE NoError

AssertExchangeThenPublish(b, ch, routingKey, message) ==
  LET st == ChannelState(b, ch)
      b1 == Issue(b, "declare", st, { }, Undefined)
  IN  IF st = "open"
      THEN Send(b1, ch, Route(routingKey), [ message EXCEPT !.rk = routingKey ])
      ELSE b1

sendToTopicExchange(routingKey, message) ==
  Direct("sendToTopicExchange",
         ExchangeError(Cur, channel),
         AssertExchangeThenPublish(Cur, channel, routingKey, message))

dlqName(queueName) == queueName \o ".dlq"

(* The body of sendToDLQ: the dead-letter queue is asserted as a plain     *)
(* durable queue, then the message is sent with its failure reason.         *)
DeadLetterError(b, queueName) ==
  PublishError(b, b.channel, dlqName(queueName), durableSpec)

DeadLetter(b, queueName, message, reason) ==
  AssertThenSend(b, b.channel, dlqName(queueName), durableSpec,
                 { dlqName(queueName) },
                 [ message EXCEPT !.failureReason = reason ])

sendToDLQ(queueName, message, reason) ==
  Direct("sendToDLQ",
         DeadLetterError(Cur, queueName),
         DeadLetter(Cur, queueName, message, reason))

----------------------------------------------------------------------------
(* Deliveries and the consumer callbacks.                                  *)

Deliver(q) ==
  /\ nextTag < MaxDeliveries
  /\ ready[q] # << >>
  /\ \E k \in consuming :
       /\ k.queue = q
       /\ k.chan \in chanOpen
       /\ \/ prefetch[q] = 0
          \/ Cardinality({ u \in unacked : u.queue = q /\ u.chan = k.chan })
               < prefetch[q]
       /\ unacked' = unacked \cup
            { [ tag |-> nextTag + 1, queue |-> q, chan |-> k.chan,
                msg |-> Head(ready[q]) ] }
       /\ tasks' = tasks \cup
            { [ tag |-> nextTag + 1, queue |-> q, chan |-> k.chan,
                msg |-> Head(ready[q]), pc |-> "recv", payment |-> Undefined,
                status |-> Undefined,
                retries |-> 0, attempts |-> 0, delays |-> << >>,
                error |-> NoError ] }
  /\ ready' = [ ready EXCEPT ![q] = Tail(@) ]
  /\ nextTag' = nextTag + 1
  /\ UNCHANGED << channel, connection, connOpen, chanOpen, nextConn, declared,
                  bindings, consuming, store, calls, nextMid, settled, events,
                  dlqLog, ops, rejections >>

(* Faulty variants of the two decisions below, against which the           *)
(* properties of the work queues are tested.                                *)
paymentOnSuccessNacks == "nack_requeue"
paymentOnFailureDrops == "nack_drop"

(* Faulty variants of the catch blocks of the three callbacks that always  *)
(* acknowledge.                                                             *)
beginnerOnFailureRequeues == "nack_requeue"
dlqOnFailureRequeues == "nack_requeue"
auditOnFailureRequeues == "nack_requeue"

(* What each callback does with its delivery when the try block completes  *)
(* and when it throws.                                                      *)
paymentOnSuccess == "ack"
paymentOnFailure == "nack_requeue"
fraudOnSuccess == "ack"
fraudOnFailure == "nack_requeue"
beginnerOnSuccess == "ack"
beginnerOnFailure == "ack"
rpcOnSuccess == "ack"
rpcOnFailure == "nack_drop"
approvedOnSuccess == "ack"
approvedOnFailure == "nack_requeue"
refundOnSuccess == "ack"
refundOnFailure == "nack_requeue"
emailOnSuccess == "ack"
emailOnFailure == "nack_requeue"
auditOnSuccess == "ack"
auditOnFailure == "ack"
dlqOnSuccess == "ack"
dlqOnFailure == "ack"

OnSuccess(q) ==
  CASE q = paymentQueue -> paymentOnSuccess
    [] q = fraudCheckQueue -> fraudOnSuccess
    [] q = "payment_rpc" -> rpcOnSuccess
    [] q = "approved_payments" -> approvedOnSuccess
    [] q = "refund_requests" -> refundOnSuccess
    [] q = "email_notifications" -> emailOnSuccess
    [] q = "audit_logs" -> auditOnSuccess
    [] q = "payment_processing.dlq" -> dlqOnSuccess
    [] OTHER -> beginnerOnSuccess

OnFailure(q) ==
  CASE q = paymentQueue -> paymentOnFailure
    [] q = fraudCheckQueue -> fraudOnFailure
    [] q = "payment_rpc" -> rpcOnFailure
    [] q = "approved_payments" -> approvedOnFailure
    [] q = "refund_requests" -> refundOnFailure
    [] q = "email_notifications" -> emailOnFailure
    [] q = "audit_logs" -> auditOnFailure
    [] q = "payment_processing.dlq" -> dlqOnFailure
    [] OTHER -> beginnerOnFailure

(* A callback that forgets to settle, against which the count of          *)
(* acknowledgment decisions is tested.                                      *)
DecideNothing(b, t, decision) == b

Decide(b, t, decision) ==
  CASE decision = "ack" -> Ack(b, t.chan, t.tag)
    [] decision = "nack_requeue" -> Nack(b, t.chan, t.tag, TRUE)
    [] OTHER -> Nack(b, t.chan, t.tag, FALSE)

(* The end of a callback.  outcome is "ok" when the try block reached its  *)
(* ack and "threw" when it jumped to the catch block.  An ack that throws  *)
(* (the channel is gone) also lands in the catch block.                     *)
Settle(b, t, outcome) ==
  IF outcome = "ok"
  THEN IF ChannelState(b, t.chan) = "open"
       THEN Decide(b, t, OnSuccess(t.queue))
       ELSE Decide(Decide(b, t, OnSuccess(t.queue)), t, OnFailure(t.queue))
  ELSE Decide(b, t, OnFailure(t.queue))

Settlement(b, t, outcome, result) ==
  LET live == ChannelState(b, t.chan) = "open"
      d == IF outcome = "ok" THEN OnSuccess(t.queue) ELSE OnFailure(t.queue)
  IN  [ tag |-> t.tag, mid |-> t.msg.mid, queue |-> t.queue, outcome |-> outcome,
        stage |-> t.pc, payment |-> t.payment, method |-> t.msg.method,
        attempts |-> t.attempts, retries |-> t.retries, delays |-> t.delays,
        result |-> result, issued |-> Settle(b, t, outcome).log,
        replyTo |-> t.msg.replyTo, correlationId |-> t.msg.correlationId,
        link |-> ChannelState(Cur, channel), live |-> live,
        chan |-> t.chan, current |-> b.channel,
        acks |-> IF live /\ d = "ack" THEN 1 ELSE 0,
        nacks |-> IF live /\ d # "ack" THEN 1 ELSE 0,
        requeue |-> live /\ d = "nack_requeue" ]

(* A callback ends: its delivery is settled on b, and a settlement call    *)
(* that throws inside the catch block leaves the promise rejected.          *)
EndWith(b, t, outcome, result) ==
  /\ Commit(Settle(b, t, outcome))
  /\ tasks' = tasks \ {t}
  /\ settled' = settled \cup { Settlement(b, t, outcome, result) }
  /\ rejections' = IF ChannelState(b, t.chan) = "open" THEN rejections
                   ELSE rejections + 1

End(b, t, outcome) == EndWith(b, t, outcome, NoResponse)

Continue(t, pc, p) ==
  /\ tasks' = (tasks \ {t}) \cup { [ t EXCEPT !.pc = pc, !.payment = p ] }
  /\ UNCHANGED << channel, connection, connOpen, chanOpen, nextConn, declared,
                  ready, unacked, consuming, nextMid, events, dlqLog, ops,
                  settled, rejections >>

(* PaymentService.findOne: the records the lookup may return; none means   *)
(* NotFoundException.  A where-clause whose id is undefined restricts       *)
(* nothing.                                                                 *)
findOne(id) ==
  IF id = Undefined THEN { p \in PaymentIds : store[p] # Absent }
  ELSE { p \in PaymentIds : p = id /\ store[p] # Absent }

(* ExpertConsumer: the RPC server on payment_rpc. *)

maxRetries == 3

(* A backoff that grows by one second per retry, against which the         *)
(* doubling is tested.                                                      *)
BackoffLinear(retries) == (retries + 1) * 1000

Backoff(retries) == (2 ^ retries) * 1000

MaxRetriesExceeded(error) ==
  [ prefix |-> "Max retries exceeded", detail |-> error.message ]

(* A status response that names the record under id, against which the    *)
(* shape of the response is tested.                                         *)
StatusResponseWithId(p) ==
  [ NoResponse EXCEPT !.id = p, !.status = store[p], !.amount = amountOf[p] ]

StatusResponse(p) ==
  [ NoResponse EXCEPT !.paymentId = p, !.status = store[p], !.amount = amountOf[p] ]

UnknownMethodResponse == [ NoResponse EXCEPT !.error = "Unknown method" ]

SuccessResponseCountingAttempts(p, retries) ==
  [ NoResponse EXCEPT !.success = TRUE, !.paymentId = p, !.retries = retries + 1 ]

SuccessResponse(p, retries) ==
  [ NoResponse EXCEPT !.success = TRUE, !.paymentId = p, !.retries = retries ]

DeadLetterResponse ==
  [ NoResponse EXCEPT !.success = FALSE, !.error = "Max retries exceeded",
                      !.sentToDLQ = TRUE ]

ReplyMessageUncorrelated(t, response) ==
  [ BlankMessage EXCEPT !.response = response ]

ReplyMessage(t, response) ==
  [ BlankMessage EXCEPT !.correlationId = t.msg.correlationId,
                        !.response = response ]

(* The tail of the RPC callback: the response is sent to the reply queue   *)
(* on the channel of the delivery, then the request is acknowledged.  A    *)
(* send on a closed channel throws into the catch block.                    *)
Reply(b, t, response) ==
  EndWith(Send(b, t.chan, { t.msg.replyTo }, ReplyMessage(t, response)), t,
          IF ChannelState(b, t.chan) = "open" THEN "ok" ELSE "threw",
          response)

(* The RPC callback up to the dispatch on request.method. *)
setupRPCServer(t) ==
  /\ t \in tasks /\ t.queue = "payment_rpc" /\ t.pc = "recv"
  /\ IF ~t.msg.wellFormed THEN End(Cur, t, "threw")
     ELSE IF t.msg.method = "getPaymentStatus"
     THEN IF findOne(t.msg.paymentId) = {} THEN End(Cur, t, "threw")
          ELSE \E p \in findOne(t.msg.paymentId) : Reply(Cur, t, StatusResponse(p))
     ELSE IF t.msg.method = "processPaymentWithRetry"
     THEN Continue(t, "attempt", Undefined)
     ELSE Reply(Cur, t, UnknownMethodResponse)
  /\ UNCHANGED << bindings, store, calls, nextTag >>

(* A handler that gives up after its first retry, against which the       *)
(* condition for dead-lettering is tested.                                  *)
mayRetryOnce(retries) == retries < 1

(* The test of the catch block of processWithRetry. *)
mayRetry(retries) == retries < maxRetries

(* The catch block of processWithRetry: below maxRetries it waits and      *)
(* calls itself with retries + 1; at maxRetries it goes on to sendToDLQ.    *)
processWithRetryCatch(b, t, from, error) ==
  /\ Commit(b)
  /\ tasks' = (tasks \ {from}) \cup
       { IF mayRetry(t.retries)
         THEN [ t EXCEPT !.pc = "attempt", !.retries = @ + 1,
                         !.delays = Append(@, Backoff(t.retries)) ]
         ELSE [ t EXCEPT !.pc = "deadletter", !.error = error ] }
  /\ UNCHANGED << settled, rejections >>

(* processWithRetry, one attempt: the lookup and the first save. *)
processWithRetry(t) ==
  /\ t \in tasks /\ t.queue = "payment_rpc" /\ t.pc = "attempt"
  /\ LET t1 == [ t EXCEPT !.attempts = @ + 1 ]
     IN  IF findOne(t.msg.paymentId) = {}
         THEN /\ processWithRetryCatch(Cur, t1, t, ErrNotFound)
              /\ UNCHANGED store
         ELSE \E p \in findOne(t.msg.paymentId) :
                /\ store' = [ store EXCEPT ![p] = "PROCESSING" ]
                /\ tasks' = (tasks \ {t}) \cup
                             { [ t1 EXCEPT !.pc = "charging", !.payment = p ] }
                /\ UNCHANGED << channel, connection, connOpen, chanOpen, nextConn,
                                declared, ready, unacked, consuming, nextMid,
                                events, dlqLog, ops, settled, rejections >>
  /\ UNCHANGED << bindings, calls, nextTag >>

(* processWithRetry at maxRetries: the request goes to sendToDLQ; when     *)
(* that returns the caller is answered, when it throws the error leaves    *)
(* processWithRetry and reaches the catch block of the callback.            *)
processWithRetryExhausted(t) ==
  /\ t \in tasks /\ t.queue = "payment_rpc" /\ t.pc = "deadletter"
  /\ LET b1 == DeadLetter(Cur, "payment_processing", t.msg,
                          MaxRetriesExceeded(t.error))
     IN  IF DeadLetterError(Cur, "payment_processing") = NoError
         THEN Reply(b1, t, DeadLetterResponse)
         ELSE End(b1, t, "threw")
  /\ UNCHANGED << bindings, store, calls, nextTag >>

(* How processPayment's caller goes on when it throws and when it returns. *)
Thrown(b, t, error) ==
  IF t.queue = "payment_rpc" THEN processWithRetryCatch(b, t, t, error)
  ELSE End(b, t, "threw")

Returned(b, t) ==
  IF t.queue = "payment_rpc" THEN Reply(b, t, SuccessResponse(t.payment, t.retries))
  ELSE End(b, t, "ok")

(* payment_processing callback up to the first save of processPayment. *)
consumePaymentProcessing(t) ==
  /\ t \in tasks /\ t.queue = paymentQueue /\ t.pc = "recv"
  /\ IF t.msg.wellFormed /\ findOne(t.msg.id) # {}
     THEN \E p \in findOne(t.msg.id) :
            /\ store' = [ store EXCEPT ![p] = "PROCESSING" ]
            /\ Continue(t, "charging", p)
     ELSE /\ End(Cur, t, "threw")
          /\ UNCHANGED store
  /\ UNCHANGED << bindings, calls, nextTag >>

(* processPayment: the provider call and the save that follows it. *)
processPaymentCharge(t, success) ==
  /\ t \in tasks /\ t.pc = "charging"
  /\ IF success
     THEN /\ store' = [ store EXCEPT ![t.payment] = "COMPLETED" ]
          /\ Continue(t, "publishing", t.payment)
     ELSE /\ store' = [ store EXCEPT ![t.payment] = "FAILED" ]
          /\ Thrown(Cur, t, ErrProvider)
  /\ UNCHANGED << bindings, calls, nextTag >>

CompleteEventWithoutAmount(p) ==
  [ BlankMessage EXCEPT !.paymentId = p, !.type = "complete" ]

CompleteEvent(p) ==
  [ BlankMessage EXCEPT !.paymentId = p, !.type = "complete", !.amount = amountOf[p] ]

(* processPayment: the payment.complete event, then back in the callback. *)
processPaymentPublish(t) ==
  /\ t \in tasks /\ t.pc = "publishing"
  /\ LET err == ExchangeError(Cur, channel)
         b1 == AssertExchangeThenPublish(Cur, channel, routingPatterns.complete,
                                         CompleteEvent(t.payment))
     IN  IF err = NoError
         THEN /\ Returned(b1, t)
              /\ UNCHANGED store
         ELSE /\ Thrown(b1, t, err)
              /\ store' = [ store EXCEPT ![t.payment] = "FAILED" ]
  /\ UNCHANGED << bindings, calls, nextTag >>

(* fraud_check callback: parse, then the fraud check, then ack. *)
consumeFraudChecks(t) ==
  /\ t \in tasks /\ t.queue = fraudCheckQueue /\ t.pc = "recv"
  /\ IF t.msg.wellFormed
     THEN Continue(t, "checking", t.msg.paymentId)
     ELSE End(Cur, t, "threw")
  /\ UNCHANGED << bindings, store, calls, nextTag >>

checkFraudDone(t) ==
  /\ t \in tasks /\ t.queue = fraudCheckQueue /\ t.pc = "checking"
  /\ End(Cur, t, "ok")
  /\ UNCHANGED << bindings, store, calls, nextTag >>

(* AdvancedConsumer: the four callbacks on the queues bound to             *)
(* payment_events.                                                          *)
(* approved_payments callback up to the return of findOne: the record's   *)
(* status is read.                                                          *)
consumeApprovedPayments(t) ==
  /\ t \in tasks /\ t.queue = "approved_payments" /\ t.pc = "recv"
  /\ IF t.msg.wellFormed /\ findOne(t.msg.paymentId) # {}
     THEN \E p \in findOne(t.msg.paymentId) :
            /\ tasks' = (tasks \ {t}) \cup
                 { [ t EXCEPT !.pc = "updating", !.payment = p,
                              !.status = store[p] ] }
            /\ UNCHANGED << channel, connection, connOpen, chanOpen, nextConn,
                            declared, ready, unacked, consuming, nextMid,
                            events, dlqLog, ops, settled, rejections >>
     ELSE End(Cur, t, "threw")
  /\ UNCHANGED << bindings, store, calls, nextTag >>

(* approved_payments callback from updateStatus on: the status that was    *)
(* read is written to the record, then the message is acked.                *)
updateStatus(t) ==
  /\ t \in tasks /\ t.queue = "approved_payments" /\ t.pc = "updating"
  /\ store' = [ store EXCEPT ![t.payment] = t.status ]
  /\ End(Cur, t, "ok")
  /\ UNCHANGED << bindings, calls, nextTag >>

consumeRefunds(t, success) ==
  /\ t \in tasks /\ t.queue = "refund_requests" /\ t.pc = "recv"
  /\ IF /\ t.msg.wellFormed /\ success
        /\ \E p \in findOne(t.msg.paymentId) : store[p] = "COMPLETED"
     THEN \E p \in { x \in findOne(t.msg.paymentId) : store[x] = "COMPLETED" } :
            /\ store' = [ store EXCEPT ![p] = "REFUNDED" ]
            /\ End(Cur, t, "ok")
     ELSE /\ End(Cur, t, "threw")
          /\ UNCHANGED store
  /\ UNCHANGED << bindings, calls, nextTag >>

consumeEmailNotifications(t) ==
  /\ t \in tasks /\ t.queue = "email_notifications" /\ t.pc = "recv"
  /\ End(Cur, t, IF t.msg.wellFormed THEN "ok" ELSE "threw")
  /\ UNCHANGED << bindings, store, calls, nextTag >>

consumeAuditLogs(t) ==
  /\ t \in tasks /\ t.queue = "audit_logs" /\ t.pc = "recv"
  /\ End(Cur, t, IF t.msg.wellFormed THEN "ok" ELSE "threw")
  /\ UNCHANGED << bindings, store, calls, nextTag >>

(* BeginnerConsumer: the payments callback up to the first save of         *)
(* processPayment.                                                          *)
consumePayments(t) ==
  /\ t \in tasks /\ t.queue = "payments" /\ t.pc = "recv"
  /\ IF t.msg.wellFormed /\ findOne(t.msg.id) # {}
     THEN \E p \in findOne(t.msg.id) :
            /\ store' = [ store EXCEPT ![p] = "PROCESSING" ]
            /\ Continue(t, "charging", p)
     ELSE /\ End(Cur, t, "threw")
          /\ UNCHANGED store
  /\ UNCHANGED << bindings, calls, nextTag >>

(* ExpertConsumer: the callback on the dead-letter queue. *)
consumeDLQ(t) ==
  /\ t \in tasks /\ t.queue = "payment_processing.dlq" /\ t.pc = "recv"
  /\ End(Cur, t, IF t.msg.wellFormed THEN "ok" ELSE "threw")
  /\ UNCHANGED << bindings, store, calls, nextTag >>

----------------------------------------------------------------------------
(* The durable work queues: producers, the two IntermediateConsumer        *)
(* callbacks, loss of the connection, and sendToPaymentQueue, the one      *)
(* operation that reconnects.                                               *)

WorkQueues == { paymentQueue, fraudCheckQueue }

WorkTasks ==
  { [ BlankMessage EXCEPT !.id = "p1", !.amount = 50 ],
    [ BlankMessage EXCEPT !.id = "p2", !.amount = 15000 ],
    [ BlankMessage EXCEPT !.paymentId = "p1", !.amount = 50 ],
    [ BlankMessage EXCEPT !.wellFormed = FALSE ] }

FraudTasks ==
  { [ BlankMessage EXCEPT !.paymentId = "p1", !.amount = 50 ],
    [ BlankMessage EXCEPT !.wellFormed = FALSE ] }

InitWork ==
  /\ Started
  /\ store = [ p \in PaymentIds |-> IF p = "p1" THEN "PENDING" ELSE Absent ]

NextWork ==
  \/ \E task \in WorkTasks : sendToWorkQueue(paymentQueue, task)
  \/ \E task \in FraudTasks : sendToWorkQueue(fraudCheckQueue, task)
  \/ \E p \in PaymentIds : sendToPaymentQueue(p)
  \/ \E c \in calls : ensureChannel(c)
  \/ \E c \in calls, fail \in ConnectOutcomes : connectOpen(c, fail)
  \/ \E q \in WorkQueues : Deliver(q)
  \/ \E t \in tasks : consumePaymentProcessing(t)
  \/ \E t \in tasks, success \in BOOLEAN : processPaymentCharge(t, success)
  \/ \E t \in tasks : processPaymentPublish(t)
  \/ \E t \in tasks : consumeFraudChecks(t)
  \/ \E t \in tasks : checkFraudDone(t)
  \/ \E c \in connOpen : ConnectionLost(c)

SpecWork == InitWork /\ [][NextWork]_vars


----------------------------------------------------------------------------
(* Properties of the durable work queues.                                  *)

(* The message of settlement s is held by the broker for another delivery, *)
(* or has been delivered again since.                                       *)
OnQueue(s) == \E i \in 1..Len(ready[s.queue]) : ready[s.queue][i].mid = s.mid

DeliveredAfter(s) ==
  \/ \E u \in unacked : u.msg.mid = s.mid /\ u.tag > s.tag
  \/ \E t \in tasks : t.msg.mid = s.mid /\ t.tag > s.tag
  \/ \E r \in settled : r.mid = s.mid /\ r.tag > s.tag

AckedOnceForGood(s) ==
  /\ s.acks = 1 /\ s.nacks = 0
  /\ ~OnQueue(s) /\ ~DeliveredAfter(s)

(* C1, as stated: every payment_processing delivery whose processing ran   *)
(* to its end without throwing is acknowledged exactly once, is not        *)
(* nacked, and its message is never delivered again.                        *)
C1_AsStated ==
  \A s \in settled :
    (s.queue = paymentQueue /\ s.outcome = "ok") => AckedOnceForGood(s)

(* C1, amended: the same, for the deliveries whose channel is still open   *)
(* when processing ends.  A delivery can only be acknowledged on the       *)
(* channel it arrived on, and the broker requeues what a closed channel    *)
(* left unsettled.                                                          *)
C1_AckedOnceWhileChannelOpen ==
  \A s \in settled :
    (s.queue = paymentQueue /\ s.outcome = "ok" /\ s.live) => AckedOnceForGood(s)

(* A message that failed once and succeeded on its redelivery. *)
C1_Witness ==
  \E s \in settled :
    /\ s.queue = paymentQueue /\ s.outcome = "ok" /\ s.live /\ s.acks = 1
    /\ \E r \in settled : r.mid = s.mid /\ r.tag < s.tag /\ r.outcome = "threw"

NackedAndBack(s) ==
  /\ s.nacks = 1 /\ s.requeue /\ s.acks = 0
  /\ OnQueue(s) \/ DeliveredAfter(s)

(* C2, as stated: every delivery on payment_processing or fraud_check      *)
(* whose processing throws is nacked with requeue=true and not acked, and  *)
(* its message is back on the queue or delivered again, however often it   *)
(* has failed before.                                                       *)
C2_AsStated ==
  \A s \in settled :
    (s.queue \in WorkQueues /\ s.outcome = "threw") => NackedAndBack(s)

(* C2, amended: the same, for the deliveries whose channel is still open   *)
(* when the callback's catch block runs.                                    *)
C2_NackRequeueWhileChannelOpen ==
  \A s \in settled :
    (s.queue \in WorkQueues /\ s.outcome = "threw" /\ s.live) => NackedAndBack(s)

(* One message has failed on MaxDeliveries - 1 deliveries in a row, each   *)
(* nacked with requeue, and has been delivered once more.                   *)
C2_Witness ==
  \E t \in tasks :
    /\ t.tag = MaxDeliveries /\ t.queue \in WorkQueues /\ t.msg.redelivered
    /\ Cardinality({ s \in settled : s.mid = t.msg.mid /\ s.outcome = "threw"
                                      /\ s.nacks = 1 /\ s.requeue })
         = MaxDeliveries - 1

CompleteEventOnBoth(p) ==
  \E e \in events :
    /\ e.msg.rk = << "payment", "complete" >>
    /\ e.msg.paymentId = p /\ e.msg.amount = amountOf[p]
    /\ { "email_notifications", "audit_logs" } \subseteq e.to

----------------------------------------------------------------------------
(* The RPC server: clients put requests on payment_rpc, the server answers *)
(* on the reply queue, processPaymentWithRetry retries and dead-letters.   *)

RpcRequest(method, p) ==
  [ BlankMessage EXCEPT !.method = method, !.paymentId = p,
                        !.replyTo = "rpc_reply", !.correlationId = "c1" ]

RpcRequests ==
  { RpcRequest(m, p) :
      m \in { "getPaymentStatus", "processPaymentWithRetry", "refundPayment" },
      p \in PaymentIds }
  \cup { [ BlankMessage EXCEPT !.wellFormed = FALSE ] }

(* A client publishes a request to payment_rpc through the default         *)
(* exchange, on a connection of its own.                                    *)
ClientRequest(m) ==
  /\ nextTag + Len(ready["payment_rpc"]) < MaxRequests
  /\ ready' = [ ready EXCEPT !["payment_rpc"] = Append(@, Stamp(m, nextMid + 1)) ]
  /\ nextMid' = nextMid + 1
  /\ UNCHANGED << channel, connection, connOpen, chanOpen, nextConn, declared,
                  unacked, bindings, consuming, store, tasks, calls, nextTag,
                  settled, events, dlqLog, ops, rejections >>

InitRpc ==
  /\ Started
  /\ store = [ p \in PaymentIds |-> IF p = "p1" THEN "PENDING" ELSE Absent ]

NextRpc ==
  \/ \E m \in RpcRequests : ClientRequest(m)
  \/ Deliver("payment_rpc")
  \/ \E t \in tasks : setupRPCServer(t)
  \/ \E t \in tasks : processWithRetry(t)
  \/ \E t \in tasks, success \in BOOLEAN : processPaymentCharge(t, success)
  \/ \E t \in tasks : processPaymentPublish(t)
  \/ \E t \in tasks : processWithRetryExhausted(t)
  \/ \E c \in connOpen : ConnectionLost(c)

SpecRpc == InitRpc /\ [][NextRpc]_vars

----------------------------------------------------------------------------
(* Properties of processPaymentWithRetry.                                  *)

RetryRequests ==
  { s \in settled : s.queue = "payment_rpc" /\ s.method = "processPaymentWithRetry" }

DeadLettered ==
  \E d \in dlqLog :
    /\ d.method = "processPaymentWithRetry"
    /\ d.failureReason.prefix = "Max retries exceeded"

(* C3, as stated: a processPaymentWithRetry request whose every attempt    *)
(* failed has had exactly 4 attempts, is on payment_processing.dlq with a  *)
(* reason that contains "Max retries exceeded", and has been answered with *)
(* {success:false, error:"Max retries exceeded", sentToDLQ:true}.           *)
C3_AsStated ==
  \A s \in RetryRequests :
    s.stage = "deadletter" =>
      /\ s.attempts = 4
      /\ DeadLettered
      /\ s.outcome = "ok"
      /\ s.result.success = FALSE /\ s.result.error = "Max retries exceeded"
      /\ s.result.sentToDLQ = TRUE

(* The part of C3 the code does keep: the handler gives up after exactly   *)
(* four failed attempts; then the dead-letter publish is refused, nothing  *)
(* is on the dead-letter queue and no response has been sent.               *)
C3_Observed ==
  \E s \in RetryRequests :
    /\ s.stage = "deadletter" /\ s.attempts = 4 /\ s.link = "open"
    /\ dlqLog = {} /\ s.outcome = "threw" /\ s.result = NoResponse
    /\ ready["rpc_reply"] = << >>

(* C4: a processPaymentWithRetry request whose processing failed k times   *)
(* and then succeeded has k <= 3, took k + 1 attempts and returned         *)
(* {success:true, paymentId, retries:k}; it never reached the dead-letter  *)
(* step, and the dead-letter queue holds no more messages than there are   *)
(* requests that exhausted their retries.                                   *)
C4_SuccessAfterKFailures ==
  \A s \in RetryRequests :
    s.stage = "publishing" =>
      LET k == Len(s.delays)
      IN  /\ k \in 0..3
          /\ s.attempts = k + 1
          /\ s.result.success = TRUE /\ s.result.paymentId = s.payment
          /\ s.result.retries = k /\ s.result.error = Undefined
          /\ Cardinality(dlqLog)
               <= Cardinality({ r \in RetryRequests : r.stage = "deadletter" })

(* One request succeeded at once and another after three failures. *)
C4_Witness ==
  /\ \E s \in RetryRequests :
       /\ s.stage = "publishing" /\ Len(s.delays) = 0
       /\ s.result.success = TRUE /\ s.result.retries = 0
  /\ \E s \in RetryRequests :
       /\ s.stage = "publishing" /\ Len(s.delays) = 3 /\ s.attempts = 4
       /\ s.result.success = TRUE /\ s.result.retries = 3

----------------------------------------------------------------------------
(* The topic exchange: events published with sendToTopicExchange are       *)
(* routed by the bindings made at startup and handled by AdvancedConsumer. *)

TopicQueues ==
  { "approved_payments", "refund_requests", "email_notifications", "audit_logs" }

TopicKeys ==
  { routingPatterns.approve, routingPatterns.refund, routingPatterns.complete,
    routingPatterns.fraud, << "payment" >>, << "order", "refund" >> }

TopicEvents == { [ BlankMessage EXCEPT !.paymentId = "p1", !.amount = 50 ] }

InitTopic ==
  /\ Started
  /\ store = [ p \in PaymentIds |-> IF p = "p1" THEN "COMPLETED" ELSE Absent ]

NextTopic ==
  \/ \E key \in TopicKeys, m \in TopicEvents : sendToTopicExchange(key, m)
  \/ \E q \in TopicQueues : Deliver(q)
  \/ \E t \in tasks : consumeApprovedPayments(t)
  \/ \E t \in tasks : updateStatus(t)
  \/ \E t \in tasks, success \in BOOLEAN : consumeRefunds(t, success)
  \/ \E t \in tasks : consumeEmailNotifications(t)
  \/ \E t \in tasks : consumeAuditLogs(t)

SpecTopic == InitTopic /\ [][NextTopic]_vars

----------------------------------------------------------------------------
(* Properties of the routing.                                              *)

WildcardQueues == { "email_notifications", "audit_logs" }

EventsWithKey(key) == { e \in events : e.msg.rk = key }

(* A consumer of queue q has been handed a copy of event e. *)
Handed(e, q) ==
  \/ \E t \in tasks : t.queue = q /\ t.msg.mid = e.msg.mid
  \/ \E s \in settled : s.queue = q /\ s.mid = e.msg.mid

(* Every copy of e the broker made is waiting on its queue or has been     *)
(* handed to the queue's consumer, and there is a copy for every queue in  *)
(* want and for no queue in notWant.                                        *)
RoutedTo(e, want, notWant) ==
  /\ want \subseteq e.to /\ e.to \cap notWant = {}
  /\ \A q \in TopicQueues :
       (\/ \E i \in 1..Len(ready[q]) : ready[q][i].mid = e.msg.mid
        \/ Handed(e, q)) <=> q \in e.to

(* C5, as stated: an event published with the key payment.credit.approve   *)
(* reaches approved_payments, email_notifications and audit_logs, and does *)
(* not reach refund_requests.                                               *)
C5_AsStated ==
  \A e \in EventsWithKey(<< "payment", "credit", "approve" >>) :
    RoutedTo(e, { "approved_payments" } \cup WildcardQueues, { "refund_requests" })

(* What the bindings do with that key: only approved_payments gets a copy. *)
C5_Observed ==
  \E e \in EventsWithKey(<< "payment", "credit", "approve" >>) :
    /\ e.to = { "approved_payments" }
    /\ Handed(e, "approved_payments")

(* C6: an event published with the key payment.refund reaches              *)
(* refund_requests, email_notifications and audit_logs, and does not reach *)
(* approved_payments.                                                       *)
C6_RefundRouting ==
  \A e \in EventsWithKey(<< "payment", "refund" >>) :
    RoutedTo(e, { "refund_requests" } \cup WildcardQueues, { "approved_payments" })

C6_Witness ==
  \E e \in EventsWithKey(<< "payment", "refund" >>) :
    \A q \in { "refund_requests" } \cup WildcardQueues : Handed(e, q)

----------------------------------------------------------------------------
(* The connection manager on its own: the four publish operations, the     *)
(* reconnect of sendToPaymentQueue, and loss of the connection.            *)

LinkEvent == [ BlankMessage EXCEPT !.paymentId = "p1", !.amount = 50 ]

InitLink ==
  /\ Started
  /\ store = [ p \in PaymentIds |-> IF p = "p1" THEN "PENDING" ELSE Absent ]

NextLink ==
  \/ \E p \in { "p1", Undefined } : sendToPaymentQueue(p)
  \/ \E c \in calls : ensureChannel(c)
  \/ \E c \in calls, fail \in ConnectOutcomes : connectOpen(c, fail)
  \/ sendToWorkQueue(paymentQueue, LinkEvent)
  \/ \E key \in { routingPatterns.complete, routingPatterns.approve } :
       sendToTopicExchange(key, LinkEvent)
  \/ sendToDLQ(paymentQueue, LinkEvent, MaxRetriesExceeded(ErrProvider))
  \/ \E c \in connOpen : ConnectionLost(c)

SpecLink == InitLink /\ [][NextLink]_vars

----------------------------------------------------------------------------
(* Properties of the connection manager.                                   *)

Finished == { c \in calls : c.pc = "done" }

(* C9, as stated: a publish operation whose first attempt met a transport  *)
(* error reconnected exactly once and made exactly one more attempt, which *)
(* either published or threw to the caller.                                 *)
C9_AsStated ==
  \A c \in Finished :
    isChannelError(c.first) =>
      /\ c.reconnects = 1 /\ c.attempt = 2
      /\ c.publishes + c.failures = 2

(* What sendToWorkQueue does when the cached channel has been closed by    *)
(* the broker: it throws "Channel closed" to its caller without a          *)
(* reconnect and without a second attempt.                                  *)
C9_Observed ==
  \E c \in Finished :
    /\ c.op = "sendToWorkQueue" /\ c.first = ErrChannelClosed
    /\ c.reconnects = 0 /\ c.attempt = 1 /\ c.publishes = 0
    /\ c.result = "threw" /\ c.error = ErrChannelClosed

(* C10, as stated: every declare, publish, ack and nack the program issues *)
(* is issued on an open channel.                                            *)
C10_AsStated == \A o \in ops : o.on = "open"

(* sendToTopicExchange has used the channel reference after the 'close'    *)
(* handler cleared it, and no connect() has run.                            *)
C10_Observed ==
  /\ Op("declare", "null") \in ops
  /\ nextConn = 1
  /\ \E c \in Finished : c.op = "sendToTopicExchange" /\ c.first = ErrTypeError

----------------------------------------------------------------------------
(* Properties of the RPC server's replies and settlements.                 *)

RpcHandled == { s \in settled : s.queue = "payment_rpc" }

(* Positions in the log of s's last step of the operations of one kind. *)
Issued(s, name) == { i \in 1..Len(s.issued) : s.issued[i].op = name }

Replies(s) ==
  { i \in Issued(s, "publish") : s.replyTo \in s.issued[i].to /\ s.issued[i].on = "open" }

(* C11: a request on payment_rpc whose handling did not throw had exactly  *)
(* one response published, to its replyTo queue only and with its          *)
(* correlationId, and was acknowledged exactly once, after that publish    *)
(* and without a nack; the response is on the reply queue.                  *)
C11_OneReplyThenAck ==
  \A s \in RpcHandled :
    s.outcome = "ok" =>
      /\ Cardinality(Replies(s)) = 1
      /\ \A i \in Replies(s) :
           /\ s.issued[i].to = { s.replyTo }
           /\ s.issued[i].correlationId = s.correlationId
           /\ \A j \in Issued(s, "ack") : i < j
      /\ Cardinality(Issued(s, "ack")) = 1 /\ s.acks = 1
      /\ Issued(s, "nack") = {}
      /\ \E k \in 1..Len(ready[s.replyTo]) :
           /\ ready[s.replyTo][k].correlationId = s.correlationId
           /\ ready[s.replyTo][k].response.paymentId = s.result.paymentId
           /\ ready[s.replyTo][k].response.error = s.result.error

(* A status request and a processPaymentWithRetry request have both been   *)
(* answered.                                                                *)
C11_Witness ==
  /\ \E s \in RpcHandled :
       s.outcome = "ok" /\ s.method = "getPaymentStatus" /\ s.result.status = "PENDING"
  /\ \E s \in RpcHandled :
       s.outcome = "ok" /\ s.method = "processPaymentWithRetry" /\ s.retries = 1

(* C12, as stated: a request on payment_rpc whose handling threw was       *)
(* nacked once with requeue=false and not acked, had no response           *)
(* published, and is neither back on payment_rpc nor delivered again.       *)
C12_AsStated ==
  \A s \in RpcHandled :
    s.outcome = "threw" =>
      /\ s.nacks = 1 /\ ~s.requeue /\ s.acks = 0
      /\ Replies(s) = {}
      /\ ~OnQueue(s) /\ ~DeliveredAfter(s)

(* What happens to a request whose retries are exhausted while the link is *)
(* up: the refused dead-letter declaration closes the channel, the nack    *)
(* throws, and the broker puts the request back on payment_rpc.             *)
C12_Observed ==
  \E s \in RpcHandled :
    /\ s.stage = "deadletter" /\ s.outcome = "threw" /\ s.link = "open"
    /\ s.nacks = 0 /\ OnQueue(s)
    /\ connOpen = {1}


----------------------------------------------------------------------------
(* The callbacks that acknowledge whatever happens: the dead-letter queue  *)
(* and audit_logs here, the basic queue payments further down.  Messages   *)
(* reach them from publishers outside this program.                         *)

MaxPublished == 3

DrainQueues == { "payment_processing.dlq", "audit_logs" }

DrainMessages ==
  [ q \in DrainQueues |->
      IF q = "payment_processing.dlq"
      THEN { [ BlankMessage EXCEPT !.paymentId = "p1",
                                   !.failureReason = MaxRetriesExceeded(ErrProvider) ],
             [ BlankMessage EXCEPT !.wellFormed = FALSE ] }
      ELSE { [ BlankMessage EXCEPT !.paymentId = "p1", !.type = "refund" ],
             [ BlankMessage EXCEPT !.wellFormed = FALSE ] } ]

(* A publisher other than this program puts m on queue q through the       *)
(* default exchange.                                                        *)
Publisher(q, m) ==
  /\ nextMid < MaxPublished
  /\ nextMid' = nextMid + 1
  /\ ready' = [ ready EXCEPT ![q] = Append(@, [ m EXCEPT !.mid = nextMid + 1 ]) ]
  /\ UNCHANGED << channel, connection, connOpen, chanOpen, nextConn, declared,
                  unacked, bindings, consuming, store, tasks, calls, nextTag,
                  settled, events, dlqLog, ops, rejections >>

InitDrain ==
  /\ Started
  /\ store = [ p \in PaymentIds |-> Absent ]

NextDrain ==
  \/ \E q \in DrainQueues : \E m \in DrainMessages[q] : Publisher(q, m)
  \/ \E q \in DrainQueues : Deliver(q)
  \/ \E t \in tasks : consumeDLQ(t)
  \/ \E t \in tasks : consumeAuditLogs(t)
  \/ \E c \in connOpen : ConnectionLost(c)

SpecDrain == InitDrain /\ [][NextDrain]_vars

Handled(q) == { s \in settled : s.queue = q }

(* The settlement s ended in one acknowledgment that took effect and in    *)
(* nothing else: no nack and no publish were issued, and the message is    *)
(* neither back on its queue nor delivered again.                           *)
AckedOnly(s) ==
  /\ s.acks = 1 /\ s.nacks = 0
  /\ Cardinality(Issued(s, "ack")) = 1
  /\ Issued(s, "nack") = {} /\ Issued(s, "publish") = {}
  /\ ~OnQueue(s) /\ ~DeliveredAfter(s)

----------------------------------------------------------------------------
(* The basic queue payments and the BeginnerConsumer callback, which runs  *)
(* processPayment on the record the message names.                          *)

BasicMessages ==
  { [ BlankMessage EXCEPT !.id = "p1", !.amount = 50 ],
    [ BlankMessage EXCEPT !.id = "p2", !.amount = 15000 ],
    [ BlankMessage EXCEPT !.wellFormed = FALSE ] }

InitBasic ==
  /\ Started
  /\ store = [ p \in PaymentIds |-> IF p = "p1" THEN "PENDING" ELSE Absent ]

NextBasic ==
  \/ \E m \in BasicMessages : Publisher("payments", m)
  \/ Deliver("payments")
  \/ \E t \in tasks : consumePayments(t)
  \/ \E t \in tasks, success \in BOOLEAN : processPaymentCharge(t, success)
  \/ \E t \in tasks : processPaymentPublish(t)
  \/ \E c \in connOpen : ConnectionLost(c)

SpecBasic == InitBasic /\ [][NextBasic]_vars

(* The settlement s ended in one acknowledgment that took effect, and its  *)
(* message is neither back on its queue nor delivered again.                *)
AckedOnceNotRedelivered(s) ==
  /\ s.acks = 1 /\ s.nacks = 0
  /\ Cardinality(Issued(s, "ack")) = 1 /\ Issued(s, "nack") = {}
  /\ ~OnQueue(s) /\ ~DeliveredAfter(s)

----------------------------------------------------------------------------
(* Properties of the queue declarations the publish operations issue.      *)

(* The positions in the log of call c of the queue declarations that       *)
(* reached the broker.                                                      *)
Declares(c) ==
  { i \in 1..Len(c.issued) :
      c.issued[i].op = "declare" /\ c.issued[i].to # { }
        /\ c.issued[i].on = "open" }

(* C15: a declaration of an existing queue with the specification it has   *)
(* reports no error and changes nothing, so the operation goes on to       *)
(* publish to that queue and returns; a declaration with a different       *)
(* specification is reported, the operation throwing PRECONDITION_FAILED   *)
(* to its caller without publishing.                                        *)
C15_DeclareIdempotentOrError ==
  \A c \in Finished : \A i \in Declares(c) :
    LET d == c.issued[i]
    IN  /\ (d.was # NoQueue /\ d.was = d.asked) =>
             /\ c.result = "returned" /\ c.error = NoError
             /\ \A q \in d.to : declared[q] = d.was
             /\ i < Len(c.issued)
             /\ c.issued[i + 1].op = "publish" /\ c.issued[i + 1].on = "open"
             /\ c.issued[i + 1].to = d.to
        /\ (d.was # NoQueue /\ d.was # d.asked) =>
             /\ c.result = "threw" /\ c.error = ErrPrecondition
             /\ \A q \in d.to : declared[q] = d.was
             /\ i = Len(c.issued)

(* payment_processing has been redeclared as it is and the operation       *)
(* returned; payment_processing.dlq has been redeclared without its TTL    *)
(* and the operation threw.                                                 *)
C15_Witness ==
  /\ \E c \in Finished : \E i \in Declares(c) :
       /\ c.issued[i].to = { paymentQueue }
       /\ c.issued[i].was = c.issued[i].asked /\ c.result = "returned"
  /\ \E c \in Finished : \E i \in Declares(c) :
       /\ c.issued[i].to = { "payment_processing.dlq" }
       /\ c.issued[i].was = dlqSpec /\ c.issued[i].asked = durableSpec
       /\ c.result = "threw"


----------------------------------------------------------------------------
(* Startup.  The framework runs the onModuleInit hooks side by side:       *)
(* RabbitMQService connects while each consumer polls for the channel and  *)
(* then declares its queues and subscribes.  The hooks in progress are     *)
(* kept in calls.                                                           *)

waitMaxRetries == 10

ErrStartup ==
  [ code |-> Undefined,
    message |-> "Failed to connect to RabbitMQ after multiple attempts" ]

ErrNotInitialized ==
  [ code |-> Undefined, message |-> "RabbitMQ channel is not initialized yet" ]

Consumers == { "BeginnerConsumer", "ExpertConsumer" }

(* What each consumer's onModuleInit does once its wait has returned, one  *)
(* entry per awaited channel operation.                                     *)
setupSteps ==
  [ k \in Consumers |->
      IF k = "BeginnerConsumer"
      THEN << [ op |-> "declare", queue |-> "payments", spec |-> paymentsSpec ],
              [ op |-> "consume", queue |-> "payments", spec |-> paymentsSpec ] >>
      ELSE << [ op |-> "declare", queue |-> "payment_processing.dlq", spec |-> dlqSpec ],
              [ op |-> "declare", queue |-> "payment_rpc", spec |-> durableSpec ],
              [ op |-> "consume", queue |-> "payment_rpc", spec |-> durableSpec ],
              [ op |-> "consume", queue |-> "payment_processing.dlq",
                spec |-> dlqSpec ] >> ]

Hook(k, pc) ==
  [ id |-> k, op |-> "onModuleInit", pc |-> pc, polls |-> 0, failed |-> 0,
    found |-> FALSE, step |-> 0, result |-> "pending", error |-> NoError,
    issued |-> << >> ]

Hooks == { c \in calls : c.id \in Consumers }

(* The loop condition of waitForRabbitMQ, and a variant that lets the loop *)
(* run once more.                                                           *)
waitGoesOnOneMore(i) == i <= waitMaxRetries

waitGoesOn(i) == i < waitMaxRetries

(* RabbitMQService.onModuleInit: connect(), which may find the broker      *)
(* unreachable.                                                             *)
serviceOnModuleInit(up) ==
  \E c \in calls :
    /\ c.id = "RabbitMQService" /\ c.pc = "connect"
    /\ LET n == nextConn + 1
       IN  Commit(IF up
                  THEN [ Cur EXCEPT !.nextConn = n, !.connOpen = @ \cup {n},
                                    !.chanOpen = @ \cup {n}, !.channel = n,
                                    !.connection = n ]
                  ELSE Cur)
    /\ calls' = (calls \ {c}) \cup
         { IF up THEN Finish(c, "returned", NoError)
           ELSE Finish(c, "threw", ErrConnRefused) }
    /\ UNCHANGED << bindings, store, tasks, nextTag, settled, rejections >>

(* One turn of the loop of waitForRabbitMQ: getChannel() either returns    *)
(* the channel, and the wait returns, or throws, and the loop sleeps; when *)
(* the loop runs out the wait throws.                                       *)
waitForRabbitMQ(k) ==
  \E c \in calls :
    /\ c.id = k /\ c.pc = "wait"
    /\ calls' = (calls \ {c}) \cup
         { IF channel # NoChannel
           THEN [ c EXCEPT !.polls = @ + 1, !.found = TRUE, !.pc = "setup" ]
           ELSE IF waitGoesOn(c.polls + 1)
           THEN [ c EXCEPT !.polls = @ + 1, !.failed = @ + 1 ]
           ELSE Finish([ c EXCEPT !.polls = @ + 1, !.failed = @ + 1 ],
                       "threw", ErrStartup) }
    /\ UNCHANGED << channel, connection, connOpen, chanOpen, nextConn, declared,
                    ready, unacked, bindings, consuming, store, tasks, nextMid,
                    nextTag, settled, events, dlqLog, ops, rejections >>

(* channel.consume(q, callback) issued on channel ch. *)
Consume(b, ch, q) ==
  LET st == ChannelState(b, ch)
      b1 == Issue(b, "consume", st, { q }, Undefined)
  IN  IF st # "open" THEN b1
      ELSE [ b1 EXCEPT !.consuming = @ \cup { [ queue |-> q, chan |-> ch ] } ]

(* The next awaited operation of a consumer's setup, on the channel that   *)
(* getChannel() returns; getChannel() throws when there is none.            *)
setupStep(k) ==
  \E c \in calls :
    /\ c.id = k /\ c.pc = "setup"
    /\ LET s == setupSteps[k][c.step + 1]
           err == IF channel = NoChannel THEN ErrNotInitialized
                  ELSE IF s.op = "declare"
                  THEN PublishError(Cur, channel, s.queue, s.spec)
                  ELSE ExchangeError(Cur, channel)
           b1 == IF channel = NoChannel THEN Cur
                 ELSE IF s.op = "declare"
                 THEN AssertQueue(Cur, channel, s.queue, s.spec)
                 ELSE Consume(Cur, channel, s.queue)
           c1 == [ c EXCEPT !.step = @ + 1, !.issued = @ \o b1.log ]
       IN  /\ Commit(b1)
           /\ calls' = (calls \ {c}) \cup
                { IF err # NoError THEN Finish(c1, "threw", err)
                  ELSE IF c1.step = Len(setupSteps[k])
                  THEN Finish(c1, "returned", NoError)
                  ELSE c1 }
    /\ UNCHANGED << bindings, store, tasks, nextTag, settled, rejections >>

InitStartup ==
  /\ channel = NoChannel /\ connection = NoChannel
  /\ connOpen = {} /\ chanOpen = {} /\ nextConn = 0
  /\ declared = [ q \in Queues |-> NoQueue ]
  /\ ready = [ q \in Queues |-> << >> ]
  /\ unacked = {} /\ bindings = {} /\ consuming = {}
  /\ store = [ p \in PaymentIds |-> Absent ]
  /\ tasks = {}
  /\ calls = { Hook("RabbitMQService", "connect") }
               \cup { Hook(k, "wait") : k \in Consumers }
  /\ nextMid = 0 /\ nextTag = 0
  /\ settled = {} /\ events = {} /\ dlqLog = {} /\ ops = {}
  /\ rejections = 0

NextStartup ==
  \/ \E up \in BOOLEAN : serviceOnModuleInit(up)
  \/ \E k \in Consumers : waitForRabbitMQ(k)
  \/ \E k \in Consumers : setupStep(k)
  \/ \E c \in connOpen : ConnectionLost(c)

(* The timer each turn of the wait sleeps on always fires. *)
SpecStartup ==
  /\ InitStartup /\ [][NextStartup]_vars
  /\ \A k \in Consumers : WF_vars(waitForRabbitMQ(k))

(* The queues consumer k declares or subscribes to. *)
QueuesOf(k) == { setupSteps[k][i].queue : i \in 1..Len(setupSteps[k]) }

WaitBounded ==
  \A c \in Hooks :
    /\ c.polls <= 10
    /\ c.found => c.polls = c.failed + 1 /\ c.pc # "wait"
    /\ ~c.found => c.polls = c.failed
    /\ c.pc = "wait" => c.failed < 10
    /\ (c.result = "threw" /\ c.error = ErrStartup) <=> (c.failed = 10)
    /\ ~c.found =>
         /\ c.issued = << >> /\ c.step = 0
         /\ \A q \in QueuesOf(c.id) :
              /\ ~ \E s \in consuming : s.queue = q
              /\ declared[q] = NoQueue

(* C16: a consumer's wait polls for the channel at most 10 times; the poll *)
(* that finds the channel is its last and the wait returns; when 10 polls  *)
(* have failed the wait throws the startup error; every wait comes to an   *)
(* end; and until its wait has found the channel a consumer has issued no  *)
(* declaration and no subscription.                                         *)
C16_StartupWait ==
  /\ [] WaitBounded
  /\ <> (\A c \in Hooks : c.pc # "wait")

(* One consumer gave up after ten failed polls; the other found the        *)
(* channel after failed polls and has subscribed.                           *)
C16_Witness ==
  /\ \E c \in Hooks : c.failed = 10 /\ c.result = "threw" /\ c.error = ErrStartup
  /\ \E c \in Hooks :
       /\ c.found /\ c.failed > 0 /\ c.result = "returned"
       /\ \A q \in QueuesOf(c.id) : \E s \in consuming : s.queue = q


----------------------------------------------------------------------------
(* Properties of connect().                                                *)

(* C17, as stated: a connect() invoked while the cached connection and     *)
(* channel are open closes nothing and opens no connection.                 *)
C17_AsStated ==
  \A c \in calls : \A i \in 1..Len(c.connects) :
    c.connects[i].live =>
      ~c.connects[i].closed /\ c.connects[i].opened = NoChannel

(* A sendToPaymentQueue whose own amqp.connect was reset invoked connect() *)
(* from its catch block while the link another call had just made was     *)
(* open: that channel was closed, a further connection was opened, and the *)
(* connection it replaced is still open with nothing referring to it.       *)
C17_Observed ==
  \E c \in Finished : \E i \in 1..Len(c.connects) :
    LET k == c.connects[i]
    IN  /\ k.live /\ k.closed /\ k.opened # NoChannel
        /\ k.channel \notin chanOpen
        /\ k.connection \in connOpen /\ k.opened \in connOpen
        /\ connection = k.opened /\ c.result = "returned"


(* The sendToPaymentQueue calls that found the cached link cleared. *)
FoundCleared ==
  { c \in calls : /\ c.op = "sendToPaymentQueue" /\ c.connects # << >>
                  /\ c.connects[1].channel = NoChannel
                  /\ c.connects[1].connection = NoChannel }

Reconnected(c) == \E i \in 1..Len(c.connects) : c.connects[i].opened # NoChannel

ClearedThenFresh ==
  /\ connection # NoChannel => connection \in connOpen
  /\ (channel = NoChannel) <=> (connection = NoChannel)
  /\ \A c \in FoundCleared :
       /\ c.issued # << >> => Reconnected(c)
       /\ \A i \in 1..Len(c.issued) : c.issued[i].on = "open"
       /\ \A i \in 1..Len(c.connects) :
            c.connects[i].opened # NoChannel =>
              /\ c.connects[i].opened # c.connects[i].connection
              /\ c.connects[i].opened <= nextConn
       /\ c.result = "returned" =>
            /\ Reconnected(c) /\ Len(c.issued) = 2
            /\ c.issued[1].op = "declare" /\ c.issued[2].op = "publish"

(* C18: a step in which a connection closes leaves the cached channel and  *)
(* connection cleared, and a cached connection is never a closed one; a    *)
(* sendToPaymentQueue that finds the cache cleared declares and publishes  *)
(* only after connect() has opened a new connection and channel, and on    *)
(* an open channel.                                                         *)
C18_ClearedThenFresh ==
  /\ [] ClearedThenFresh
  /\ [][ (connOpen' # connOpen /\ connOpen' \subseteq connOpen) =>
           (channel' = NoChannel /\ connection' = NoChannel) ]_vars

(* The connection was lost, and the next sendToPaymentQueue found the      *)
(* cache cleared, connected anew, declared payments and published.          *)
C18_Witness ==
  \E c \in FoundCleared :
    /\ c.result = "returned" /\ c.publishes = 1
    /\ c.connects[1].opened = 2 /\ connOpen = {2} /\ channel = 2
    /\ Len(ready["payments"]) = 1


----------------------------------------------------------------------------
(* Properties of the two operations a caller submits work with.            *)

Enqueues ==
  { c \in Finished : c.op \in { "sendToPaymentQueue", "sendToWorkQueue" } }

TargetOf(c) == IF c.op = "sendToPaymentQueue" THEN "payments" ELSE paymentQueue

(* The operation published its message to its queue on an open channel. *)
HandedOver(c) ==
  \E i \in 1..Len(c.issued) :
    /\ c.issued[i].op = "publish" /\ c.issued[i].on = "open"
    /\ c.issued[i].to = { TargetOf(c) }

----------------------------------------------------------------------------
(* Properties of the channel handle the consumer callbacks use.            *)

(* C21, as stated: whenever a callback settles its delivery while the      *)
(* connection manager holds a channel, the ack or nack is issued on that   *)
(* channel.                                                                 *)
C21_AsStated ==
  \A s \in settled : s.current # NoChannel => s.chan = s.current

(* The connection was lost while payment_processing was handling a         *)
(* message and sendToPaymentQueue has reconnected; the callback then       *)
(* issued its ack or nack on the channel it captured at startup, which is  *)
(* closed, while the current channel is open.                               *)
C21_Observed ==
  \E s \in settled :
    /\ s.queue = paymentQueue /\ s.chan = 1 /\ s.current = 2
    /\ s.link = "open" /\ ~s.live
    /\ s.issued # << >> /\ \A i \in 1..Len(s.issued) : s.issued[i].on = "closed"
    /\ s.acks = 0 /\ s.nacks = 0


----------------------------------------------------------------------------
(* Properties of the creation of dead-letter entries.                      *)

(* Positions in the log of s's last step of the operations addressed to    *)
(* payment_processing.dlq.                                                  *)
DeadLetterCalls(s) ==
  { i \in 1..Len(s.issued) : "payment_processing.dlq" \in s.issued[i].to }

----------------------------------------------------------------------------
(* Properties of the RPC server's dispatch on the method name.             *)

KnownMethods == { "getPaymentStatus", "processPaymentWithRetry" }

(* The step in which the RPC callback answers or rejects request t at its  *)
(* dispatch, leaving settlement s.                                          *)
Dispatched(t, s) ==
  /\ t \in tasks /\ t.queue = "payment_rpc" /\ t.pc = "recv" /\ t.msg.wellFormed
  /\ s \in settled' /\ s \notin settled /\ s.tag = t.tag

(* What the retry algorithm returned is what was answered. *)
RetryResultAnswered ==
  \A s \in RetryRequests :
    /\ s.outcome = "ok" =>
         /\ s.stage = "publishing"
         /\ s.result.success = TRUE /\ s.result.paymentId = s.payment
         /\ s.result.retries = s.retries
         /\ Cardinality(Replies(s)) = 1
    /\ s.stage = "deadletter" => s.outcome = "threw" /\ Replies(s) = {}

----------------------------------------------------------------------------
(* PaymentService.create and the messages it sends.                        *)

ProcessingTask(p) ==
  [ BlankMessage EXCEPT !.paymentId = p, !.amount = amountOf[p] ]

(* create, up to its first send: the record is saved as PENDING and        *)
(* sendToPaymentQueue is entered with the saved record.                     *)
create(p) ==
  /\ store[p] = Absent
  /\ Cardinality(calls) < MaxCalls
  /\ store' = [ store EXCEPT ![p] = "PENDING" ]
  /\ calls' = calls \cup { [ NewCall("create") EXCEPT !.payment = p ] }
  /\ UNCHANGED << channel, connection, connOpen, chanOpen, nextConn, declared,
                  ready, unacked, bindings, consuming, tasks, nextMid,
                  nextTag, settled, events, dlqLog, ops, rejections >>

(* create, after sendToPaymentQueue has returned: the task is sent to      *)
(* payment_processing and the saved record is returned; the send to        *)
(* fraud_check is commented out.  An error of sendToWorkQueue leaves       *)
(* create.                                                                  *)
createSendToWorkQueue(c) ==
  /\ c \in calls /\ c.op = "create" /\ c.pc = "done" /\ c.result = "returned"
  /\ LET err == PublishError(Cur, channel, paymentQueue, durableSpec)
         after == AssertThenSend(Cur, channel, paymentQueue, durableSpec,
                                 { paymentQueue }, ProcessingTask(c.payment))
     IN  /\ Commit(after)
         /\ calls' = (calls \ {c}) \cup
              { [ c EXCEPT !.pc = "end", !.issued = @ \o after.log,
                           !.publishes = IF err = NoError THEN @ + 1 ELSE @,
                           !.failures = IF err = NoError THEN @ ELSE @ + 1,
                           !.result = IF err = NoError THEN "returned" ELSE "threw",
                           !.error = err ] }
  /\ UNCHANGED << bindings, store, tasks, nextTag, settled, rejections >>

InitCreate ==
  /\ Started
  /\ store = [ p \in PaymentIds |-> Absent ]

NextCreate ==
  \/ \E p \in PaymentIds : create(p)
  \/ \E c \in calls : ensureChannel(c)
  \/ \E c \in calls, fail \in ConnectOutcomes : connectOpen(c, fail)
  \/ \E c \in calls : createSendToWorkQueue(c)
  \/ \E c \in connOpen : ConnectionLost(c)

SpecCreate == InitCreate /\ [][NextCreate]_vars

(* The messages for payment p that queue q holds. *)
MessagesFor(q, p) ==
  { i \in 1..Len(ready[q]) : ready[q][i].id = p \/ ready[q][i].paymentId = p }

Created == { c \in calls : c.op = "create" /\ c.pc = "end" /\ c.result = "returned" }

(* C24, as stated: once create has returned for a payment, each of         *)
(* payments, payment_processing and fraud_check holds one message for it.  *)
C24_AsStated ==
  \A c \in Created :
    \A q \in { "payments", paymentQueue, fraudCheckQueue } :
      Cardinality(MessagesFor(q, c.payment)) = 1

(* create has returned for a payment; payments and payment_processing hold *)
(* one message for it each, and fraud_check holds none and was never       *)
(* addressed.                                                               *)
C24_Observed ==
  \E c \in Created :
    /\ Cardinality(MessagesFor("payments", c.payment)) = 1
    /\ Cardinality(MessagesFor(paymentQueue, c.payment)) = 1
    /\ MessagesFor(fraudCheckQueue, c.payment) = {}
    /\ \A i \in 1..Len(c.issued) : fraudCheckQueue \notin c.issued[i].to
    /\ c.publishes = 2


----------------------------------------------------------------------------
(* The routing of payment.complete.                                        *)

(* C25, as stated: a message published to payment_events with routing key  *)
(* payment.complete is routed to approved_payments.                         *)
C25_AsStated ==
  \A e \in EventsWithKey(routingPatterns.complete) : "approved_payments" \in e.to

(* A payment.complete event was published and went to email_notifications  *)
(* and audit_logs only: the one binding of approved_payments is            *)
(* payment.credit.approve, which payment.complete does not match.           *)
C25_Observed ==
  /\ \E e \in EventsWithKey(routingPatterns.complete) : e.to = WildcardQueues
  /\ \A x \in bindings :
       x.queue = "approved_payments" => x.pattern = routingPatterns.approve
  /\ ~Matches(routingPatterns.approve, routingPatterns.complete)


----------------------------------------------------------------------------
(* Properties of the delays of processWithRetry.                           *)

TimeUnit == 1000    \* milliseconds

(* The delays a handler has waited so far are 1, 2, 4, ... time units, one *)
(* before each retry attempt.                                               *)
Doubling(delays, retries) ==
  /\ Len(delays) = retries
  /\ \A n \in 1..Len(delays) : delays[n] = (2 ^ (n - 1)) * TimeUnit

(* C26: attempt 0 of processPaymentWithRetry runs with no delay, retry     *)
(* attempt n = 1, 2, 3 is preceded by a delay of 2^(n-1) time units, and   *)
(* no delay follows the final failed attempt: a handler about to address   *)
(* the dead-letter queue has waited 1, 2, 4 and no more.                    *)
C26_DelaysDouble ==
  /\ \A t \in tasks :
       t.queue = "payment_rpc" =>
         /\ Doubling(t.delays, t.retries) /\ t.retries <= 3
         /\ t.pc = "attempt" => t.attempts = t.retries
         /\ t.pc = "deadletter" =>
              t.attempts = 4 /\ t.delays = << TimeUnit, 2 * TimeUnit, 4 * TimeUnit >>
  /\ \A s \in RetryRequests :
       /\ Doubling(s.delays, s.retries)
       /\ s.attempts > 0 => Len(s.delays) = s.attempts - 1
       /\ s.stage = "deadletter" =>
            s.delays = << TimeUnit, 2 * TimeUnit, 4 * TimeUnit >>

(* One request failed four times and waited 1, 2 and 4 time units before   *)
(* the dead-letter step; another succeeded at once without waiting.         *)
C26_Witness ==
  /\ \E s \in RetryRequests :
       s.stage = "deadletter" /\ s.attempts = 4 /\ s.delays = << 1000, 2000, 4000 >>
  /\ \E s \in RetryRequests :
       s.stage = "publishing" /\ s.attempts = 1 /\ s.delays = << >>


----------------------------------------------------------------------------
(* Properties of the approved_payments callback's write.                   *)

Approved == { s \in settled : s.queue = "approved_payments" /\ s.outcome = "ok" }

Refunded == { s \in settled : s.queue = "refund_requests" /\ s.outcome = "ok" }

(* C27, as stated: the write of the approved_payments callback leaves the  *)
(* record store as it was immediately before the write, whatever the other *)
(* consumers and the refund did in between.                                 *)
C27_AsStated ==
  [][ \A t \in tasks :
        (t.queue = "approved_payments" /\ t.pc = "updating" /\ t \notin tasks')
          => store' = store ]_vars

(* A refund of a payment has succeeded and the approved_payments callback  *)
(* has handled a message for the same payment, and the record is           *)
(* COMPLETED: the callback read the status before the refund and wrote it  *)
(* after, undoing the refund's REFUNDED.                                    *)
C27_Observed ==
  \E a \in Approved : \E r \in Refunded :
    /\ a.payment = "p1" /\ store["p1"] = "COMPLETED"
    /\ a.acks = 1 /\ r.acks = 1


----------------------------------------------------------------------------
(* The nine consumer callbacks together.                                   *)

CallbackQueues == Queues \ { "rpc_reply" }

CallbackMessages ==
  [ q \in CallbackQueues |->
      IF q = "payment_rpc"
      THEN { RpcRequest(m, "p1") :
               m \in { "getPaymentStatus", "processPaymentWithRetry", "refundPayment" } }
      ELSE IF q \in { "payments", paymentQueue }
      THEN { [ BlankMessage EXCEPT !.id = "p1", !.amount = 50 ],
             [ BlankMessage EXCEPT !.wellFormed = FALSE ] }
      ELSE { [ BlankMessage EXCEPT !.paymentId = "p1", !.amount = 50 ],
             [ BlankMessage EXCEPT !.wellFormed = FALSE ] } ]

(* A producer that offers one message at a time: it waits until every      *)
(* queue is drained and every callback has returned.                        *)
Offer(q, m) ==
  /\ nextMid < MaxOffered
  /\ tasks = {} /\ unacked = {}
  /\ \A x \in Queues : ready[x] = << >>
  /\ nextMid' = nextMid + 1
  /\ ready' = [ ready EXCEPT ![q] = Append(@, [ m EXCEPT !.mid = nextMid + 1 ]) ]
  /\ UNCHANGED << channel, connection, connOpen, chanOpen, nextConn, declared,
                  unacked, bindings, consuming, store, tasks, calls, nextTag,
                  settled, events, dlqLog, ops, rejections >>

InitCallbacks ==
  /\ Started
  /\ store = [ p \in PaymentIds |-> IF p = "p1" THEN "COMPLETED" ELSE Absent ]

NextCallbacks ==
  \/ \E q \in CallbackQueues : \E m \in CallbackMessages[q] : Offer(q, m)
  \/ \E q \in Queues : Deliver(q)
  \/ \E t \in tasks : consumePayments(t)
  \/ \E t \in tasks : consumePaymentProcessing(t)
  \/ \E t \in tasks, success \in BOOLEAN : processPaymentCharge(t, success)
  \/ \E t \in tasks : processPaymentPublish(t)
  \/ \E t \in tasks : consumeFraudChecks(t)
  \/ \E t \in tasks : checkFraudDone(t)
  \/ \E t \in tasks : consumeApprovedPayments(t)
  \/ \E t \in tasks : updateStatus(t)
  \/ \E t \in tasks, success \in BOOLEAN : consumeRefunds(t, success)
  \/ \E t \in tasks : consumeEmailNotifications(t)
  \/ \E t \in tasks : consumeAuditLogs(t)
  \/ \E t \in tasks : setupRPCServer(t)
  \/ \E t \in tasks : processWithRetry(t)
  \/ \E t \in tasks : processWithRetryExhausted(t)
  \/ \E t \in tasks : consumeDLQ(t)
  \/ \E c \in connOpen : ConnectionLost(c)

SpecCallbacks == InitCallbacks /\ [][NextCallbacks]_vars

(* The acknowledgment calls the callback issued for s, and those that took *)
(* effect.                                                                  *)
Decisions(s) == Issued(s, "ack") \cup Issued(s, "nack")

OneDecision(s) ==
  /\ Cardinality(Decisions(s)) = 1
  /\ s.acks + s.nacks = 1

(* No delivery whose callback has returned is still unsettled on an open   *)
(* channel.                                                                 *)
NoneLeftUnsettled == \A u \in unacked : \E t \in tasks : t.tag = u.tag

(* C28, as stated: every callback issues exactly one acknowledgment        *)
(* decision for each delivery on every exit path, also when the channel    *)
(* has been closed while the message was being processed, and exactly one  *)
(* takes effect.                                                            *)
C28_AsStated ==
  /\ NoneLeftUnsettled
  /\ \A s \in settled : OneDecision(s)

(* C28, amended: that holds for the deliveries whose channel is still open *)
(* when the callback settles.  On a channel that has closed every call     *)
(* the callback issues throws: one nack after a failure, an ack and then   *)
(* the catch block's call after a success; none takes effect, and the      *)
(* broker has requeued the message.                                         *)
C28_OneDecisionWhileChannelOpen ==
  /\ NoneLeftUnsettled
  /\ \A s \in settled :
       IF s.live THEN OneDecision(s)
       ELSE /\ s.acks = 0 /\ s.nacks = 0
            /\ Cardinality(Decisions(s)) = (IF s.outcome = "ok" THEN 2 ELSE 1)
            /\ \A i \in Decisions(s) : s.issued[i].on = "closed"
            /\ OnQueue(s)

(* A request on payment_rpc was answered and acked once, and a refund that *)
(* failed was nacked once.                                                  *)
C28_Witness ==
  /\ \E s \in settled :
       s.queue = "payment_rpc" /\ s.outcome = "ok" /\ s.live /\ s.acks = 1
  /\ \E s \in settled :
       s.queue = "refund_requests" /\ s.outcome = "threw" /\ s.live /\ s.nacks = 1


----------------------------------------------------------------------------
(* The shutdown hook of the connection manager.                            *)

(* onModuleDestroy: a cached channel is closed, and closing one that is   *)
(* closed already throws; the connection is left as it is.  The hook notes *)
(* the link it found.                                                       *)
onModuleDestroy ==
  /\ \A c \in calls : c.op # "onModuleDestroy"
  /\ LET st == ChannelState(Cur, channel)
         hook == [ NewCall("onModuleDestroy") EXCEPT !.connects = << Invoked(Cur) >> ]
     IN  /\ Commit(IF st = "open" THEN CloseChannel(Cur, channel) ELSE Cur)
         /\ calls' = calls \cup
              { IF st = "closed" THEN Finish(hook, "threw", ErrChannelClosed)
                ELSE Finish(hook, "returned", NoError) }
  /\ UNCHANGED << bindings, store, tasks, nextTag, settled, rejections >>

InitShutdown ==
  /\ Started
  /\ store = [ p \in PaymentIds |-> IF p = "p1" THEN "PENDING" ELSE Absent ]

NextShutdown ==
  \/ sendToPaymentQueue("p1")
  \/ \E c \in calls : ensureChannel(c)
  \/ \E c \in calls, fail \in ConnectOutcomes : connectOpen(c, fail)
  \/ sendToWorkQueue(paymentQueue, LinkEvent)
  \/ sendToDLQ(paymentQueue, LinkEvent, MaxRetriesExceeded(ErrProvider))
  \/ \E c \in connOpen : ConnectionLost(c)
  \/ onModuleDestroy

SpecShutdown == InitShutdown /\ [][NextShutdown]_vars

Destroyed == { c \in calls : c.op = "onModuleDestroy" }

(* C29, as stated: once the shutdown hook has completed, the channel and   *)
(* the connection that the connection manager held when it began are both  *)
(* closed, whatever state they were in.                                     *)
C29_AsStated ==
  \A c \in Destroyed :
    /\ c.result = "returned"
    /\ c.connects[1].channel # NoChannel => c.connects[1].channel \notin chanOpen
    /\ c.connects[1].connection # NoChannel =>
         c.connects[1].connection \notin connOpen

(* The hook has returned with the link up when it began: the channel is    *)
(* closed, the connection is still open and still cached.                   *)
C29_Observed ==
  \E c \in Destroyed :
    /\ c.result = "returned" /\ c.connects[1].live
    /\ c.connects[1].channel \notin chanOpen
    /\ c.connects[1].connection \in connOpen
    /\ connection = c.connects[1].connection


----------------------------------------------------------------------------
(* main.ts: graceful shutdown of the process.                              *)

MaxSignals == 2       \* invocations of gracefulShutdown in one behaviour

Signals == { "SIGTERM", "SIGINT", "uncaughtException", "unhandledRejection" }

NoExit == 0 - 1

(* A shutdown in which the timer is never set, against which the deadline  *)
(* is tested.                                                               *)
shutdownTimerUnset == "none"

(* const shutdownTimer = setTimeout(..., SHUTDOWN_TIMEOUT) *)
shutdownTimer == "armed"

Shutdowns == { c \in calls : c.op = "gracefulShutdown" }

Exited == \E c \in Shutdowns : c.status # NoExit

(* clearTimeout(shutdownTimer); process.exit(0) *)
exitClean(c) == [ c EXCEPT !.pc = "done", !.timer = "cleared", !.status = 0 ]

(* gracefulShutdown up to await app.close(): the timer is set; without an  *)
(* app there is nothing to close and the process exits at once.             *)
gracefulShutdown(signal, app) ==
  /\ ~Exited
  /\ Cardinality(Shutdowns) < MaxSignals
  /\ LET c == [ id |-> Cardinality(Shutdowns) + 1, op |-> "gracefulShutdown",
                signal |-> signal, pc |-> "close", timer |-> shutdownTimer,
                status |-> NoExit ]
     IN  calls' = calls \cup { IF app THEN c ELSE exitClean(c) }
  /\ UNCHANGED << channel, connection, connOpen, chanOpen, nextConn, declared,
                  ready, unacked, bindings, consuming, store, tasks, nextMid,
                  nextTag, settled, events, dlqLog, ops, rejections >>

(* app.close() settles: the destroy hooks have run, among them             *)
(* RabbitMQService.onModuleDestroy, which throws when the cached channel   *)
(* is closed already.  A rejection is logged; then, unless the data source *)
(* has to be destroyed first, the timer is cleared and the process exits   *)
(* with status 0.                                                           *)
appClose(c, threw, initialized) ==
  /\ ~Exited
  /\ c \in Shutdowns /\ c.pc = "close"
  /\ ChannelState(Cur, channel) = "closed" => threw
  /\ Commit(IF ChannelState(Cur, channel) = "open"
            THEN CloseChannel(Cur, channel) ELSE Cur)
  /\ calls' = (calls \ {c}) \cup
       { IF ~threw /\ initialized THEN [ c EXCEPT !.pc = "destroy" ]
         ELSE exitClean(c) }
  /\ UNCHANGED << bindings, store, tasks, nextTag, settled, rejections >>

(* dataSource.destroy() settles, either way; the timer is cleared and the  *)
(* process exits with status 0.                                             *)
dataSourceDestroy(c) ==
  /\ ~Exited
  /\ c \in Shutdowns /\ c.pc = "destroy"
  /\ calls' = (calls \ {c}) \cup { exitClean(c) }
  /\ UNCHANGED << channel, connection, connOpen, chanOpen, nextConn, declared,
                  ready, unacked, bindings, consuming, store, tasks, nextMid,
                  nextTag, settled, events, dlqLog, ops, rejections >>

(* The shutdown timer fires: process.exit(1). *)
shutdownTimeout(c) ==
  /\ ~Exited
  /\ c \in Shutdowns /\ c.timer = "armed"
  /\ calls' = (calls \ {c}) \cup { [ c EXCEPT !.timer = "fired", !.status = 1 ] }
  /\ UNCHANGED << channel, connection, connOpen, chanOpen, nextConn, declared,
                  ready, unacked, bindings, consuming, store, tasks, nextMid,
                  nextTag, settled, events, dlqLog, ops, rejections >>

InitExit ==
  /\ Started
  /\ store = [ p \in PaymentIds |-> IF p = "p1" THEN "PENDING" ELSE Absent ]

NextExit ==
  \/ \E signal \in Signals, app \in BOOLEAN : gracefulShutdown(signal, app)
  \/ \E c \in calls, threw \in BOOLEAN, initialized \in BOOLEAN :
       appClose(c, threw, initialized)
  \/ \E c \in calls : dataSourceDestroy(c)
  \/ \E c \in calls : shutdownTimeout(c)
  \/ ~Exited /\ sendToDLQ(paymentQueue, LinkEvent, MaxRetriesExceeded(ErrProvider))
  \/ ~Exited /\ \E c \in connOpen : ConnectionLost(c)

(* A timer that is set fires unless it is cleared; app.close() and         *)
(* dataSource.destroy() may never settle.                                   *)
SpecExit ==
  /\ InitExit /\ [][NextExit]_vars
  /\ WF_vars(\E c \in calls : shutdownTimeout(c))

(* The process exits once, with status 0 from the end of the cleanup, the  *)
(* timer then cleared, or with status 1 from the timer.                     *)
ExitStatus ==
  /\ Cardinality({ c \in Shutdowns : c.status # NoExit }) <= 1
  /\ \A c \in Shutdowns :
       /\ c.status \in { NoExit, 0, 1 }
       /\ c.status = 0 <=> (c.pc = "done" /\ c.timer = "cleared")
       /\ c.status = 1 <=> c.timer = "fired"
       /\ c.status = 1 => c.pc \in { "close", "destroy" }

(* C30: once gracefulShutdown has started the process eventually exits,    *)
(* also when closing the application never completes: with status 0 when   *)
(* the cleanup ends, with status 1 when the shutdown timer fires first.     *)
C30_EventuallyExits ==
  /\ [] ExitStatus
  /\ (Shutdowns # {}) ~> Exited

(* app.close() has not settled and the timer has ended the process with    *)
(* status 1.                                                                *)
C30_Witness ==
  \E c \in Shutdowns : c.pc = "close" /\ c.timer = "fired" /\ c.status = 1


----------------------------------------------------------------------------
(* Close events of superseded connections.                                 *)

(* C31, as stated: when a connection other than the cached one closes, the *)
(* cached channel and connection stay as they are.                          *)
C31_AsStated ==
  [][ \A c \in connOpen :
        (c \notin connOpen' /\ connection # NoChannel /\ c # connection)
          => (channel' = channel /\ connection' = connection) ]_vars

(* connect() has installed a newer connection without closing the one it   *)
(* replaced; the old connection has then closed and its close handler has  *)
(* cleared the link, although the newest connection and its channel are    *)
(* open.                                                                    *)
C31_Observed ==
  /\ channel = NoChannel /\ connection = NoChannel
  /\ nextConn > 1 /\ nextConn \in connOpen /\ nextConn \in chanOpen
  /\ \E c \in calls :
       /\ c.op = "sendToPaymentQueue" /\ c.pc = "done" /\ c.result = "returned"
       /\ \E i \in 1..Len(c.connects) : c.connects[i].opened = nextConn


----------------------------------------------------------------------------
(* The number of open connections.                                         *)

(* C32, as stated: the process holds at most one open broker connection at *)
(* any time.                                                                *)
C32_AsStated == Cardinality(connOpen) <= 1

(* Two sendToPaymentQueue calls found the link absent and each opened a    *)
(* connection; both are open and only the later one is cached.              *)
C32_Observed ==
  /\ Cardinality(connOpen) = 2
  /\ connection \in connOpen
  /\ \E c \in FoundCleared : \E d \in FoundCleared :
       /\ c.id # d.id
       /\ c.connects[1].opened \in connOpen /\ d.connects[1].opened \in connOpen
       /\ c.connects[1].opened # d.connects[1].opened
       /\ c.connects[1].opened # connection


----------------------------------------------------------------------------
(* Agreement of the declarations of one queue.                             *)

(* C33, as stated: every declaration of a queue that exists asks for the   *)
(* specification the queue was first declared with, and no operation ends  *)
(* in a declaration-mismatch error.                                         *)
C33_AsStated ==
  \A c \in calls :
    /\ c.error # ErrPrecondition
    /\ \A i \in Declares(c) :
         c.issued[i].was # NoQueue => c.issued[i].asked = c.issued[i].was

(* sendToDLQ has declared payment_processing.dlq as a plain durable queue  *)
(* while the startup declaration gave it a message TTL; the broker refused *)
(* it and closed the channel, which is still cached, and nothing was put   *)
(* on the dead-letter queue.                                                *)
C33_Observed ==
  \E c \in calls :
    /\ c.op = "sendToDLQ" /\ c.pc = "done" /\ c.error = ErrPrecondition
    /\ \E i \in Declares(c) :
         /\ c.issued[i].to = { dlqName(paymentQueue) }
         /\ c.issued[i].asked.ttl = 0 /\ c.issued[i].was.ttl = dlqTtl
         /\ c.issued[i].asked.durable /\ c.issued[i].was.durable
    /\ declared[dlqName(paymentQueue)] = dlqSpec
    /\ dlqLog = {} /\ ready[dlqName(paymentQueue)] = << >>
    /\ channel = 1 /\ 1 \notin chanOpen /\ 1 \in connOpen


----------------------------------------------------------------------------
(* Consumption after a reconnect.  The broker delivers what it can and the *)
(* callbacks run to their end; nothing is assumed of the producers and of  *)
(* the network.                                                             *)

SpecRecover ==
  /\ InitWork /\ [][NextWork]_vars
  /\ WF_vars(\E q \in WorkQueues : Deliver(q))
  /\ WF_vars(\E t \in tasks : consumePaymentProcessing(t))
  /\ WF_vars(\E t \in tasks, success \in BOOLEAN : processPaymentCharge(t, success))
  /\ WF_vars(\E t \in tasks : processPaymentPublish(t))
  /\ WF_vars(\E t \in tasks : consumeFraudChecks(t))
  /\ WF_vars(\E t \in tasks : checkFraudDone(t))

(* The link has been re-established and payment_processing holds a message *)
(* the broker may still deliver.                                            *)
Waiting ==
  /\ nextConn > 1 /\ channel = nextConn /\ channel \in chanOpen
  /\ ready[paymentQueue] # << >>
  /\ nextTag < MaxDeliveries

(* C34, as stated: once the connection manager has reconnected, a message  *)
(* on payment_processing is eventually taken off the queue by the consumer *)
(* registered at startup.                                                   *)
C34_AsStated ==
  Waiting ~> (ready[paymentQueue] = << >> \/ nextTag >= MaxDeliveries)

(* The link is up again on a new connection and payment_processing holds a *)
(* message published over it, but no queue has a consumer: the startup     *)
(* subscriptions went with the old channel and nothing subscribes again.   *)
C34_Observed ==
  /\ Waiting
  /\ consuming = {} /\ tasks = {}
  /\ \E c \in calls : c.op = "sendToPaymentQueue" /\ Reconnected(c)
  /\ \E c \in calls :
       /\ c.op = "sendToWorkQueue" /\ c.result = "returned"
       /\ \E i \in 1..Len(c.issued) :
            c.issued[i].op = "publish" /\ c.issued[i].to = { paymentQueue }


----------------------------------------------------------------------------
(* A created payment on its way through the two processing consumers.      *)

InitPay ==
  /\ Started
  /\ store = [ p \in PaymentIds |-> Absent ]

NextPay ==
  \/ \E p \in PaymentIds : create(p)
  \/ \E c \in calls : ensureChannel(c)
  \/ \E c \in calls, fail \in ConnectOutcomes : connectOpen(c, fail)
  \/ \E c \in calls : createSendToWorkQueue(c)
  \/ \E q \in { "payments", paymentQueue } : Deliver(q)
  \/ \E t \in tasks : consumePayments(t)
  \/ \E t \in tasks : consumePaymentProcessing(t)
  \/ \E t \in tasks, success \in BOOLEAN : processPaymentCharge(t, success)
  \/ \E t \in tasks : processPaymentPublish(t)
  \/ \E c \in connOpen : ConnectionLost(c)

SpecPay == InitPay /\ [][NextPay]_vars

(* The deliveries in whose handling the provider call for payment p        *)
(* succeeded: those that got as far as the payment.complete publish.        *)
Charged(p) ==
  { s.tag : s \in { x \in settled : x.stage = "publishing" /\ x.payment = p } }
    \cup { t.tag : t \in { x \in tasks : x.pc = "publishing" /\ x.payment = p } }

(* C35, as stated: the provider is charged successfully at most once for   *)
(* every payment.                                                           *)
C35_AsStated == \A p \in PaymentIds : Cardinality(Charged(p)) <= 1

(* One payment has been created, by one call of create that returned, and  *)
(* has been charged successfully twice: once by the payments callback and  *)
(* once by the payment_processing callback, each acknowledging its own     *)
(* message.                                                                 *)
C35_Observed ==
  /\ Cardinality({ c \in calls : c.op = "create" }) = 1
  /\ \E c \in Created : c.payment = "p1"
  /\ \E a \in settled : \E b \in settled :
       /\ a.queue = "payments" /\ b.queue = paymentQueue
       /\ a.payment = "p1" /\ b.payment = "p1"
       /\ a.stage = "publishing" /\ b.stage = "publishing"
       /\ a.outcome = "ok" /\ b.outcome = "ok" /\ a.acks = 1 /\ b.acks = 1
       /\ a.mid # b.mid
  /\ store["p1"] = "COMPLETED"


----------------------------------------------------------------------------
(* The field that identifies the payment in a work message.                *)

(* The payment_processing deliveries in whose handling a record was found. *)
Looked == { t \in tasks : t.queue = paymentQueue /\ t.payment # Undefined }

(* C37, as stated: the payment_processing callback reads the field in      *)
(* which create put the payment's id, and the record it processes is the   *)
(* one create persisted for that message.                                   *)
C37_AsStated ==
  \A t \in Looked : t.msg.id # Undefined /\ t.payment = t.msg.paymentId

(* create has persisted p1 and p2 and sent a task for each; the callback   *)
(* handling the task of p2 read message.id, which the task does not have,  *)
(* and is processing p1.                                                    *)
C37_Observed ==
  \E t \in Looked :
    /\ t.msg.paymentId = "p2" /\ t.msg.id = Undefined
    /\ t.payment = "p1" /\ t.pc = "charging" /\ store["p1"] = "PROCESSING"
    /\ \E c \in Created : c.payment = "p2"


----------------------------------------------------------------------------
(* The life cycle of a payment's stored status.                            *)

(* The moves of the status: PENDING -> PROCESSING -> COMPLETED or FAILED,  *)
(* and COMPLETED -> REFUNDED.                                               *)
Moves ==
  { << "PENDING", "PROCESSING" >>, << "PROCESSING", "COMPLETED" >>,
    << "PROCESSING", "FAILED" >>, << "COMPLETED", "REFUNDED" >> }

(* C36, as stated: a step that changes the stored status of an existing    *)
(* payment makes one of the moves of the life cycle; in particular a       *)
(* COMPLETED payment never returns to PROCESSING or FAILED and REFUNDED    *)
(* is entered only from COMPLETED.                                          *)
C36_AsStated ==
  [][ \A p \in PaymentIds :
        (store[p] # Absent /\ store'[p] # store[p])
          => << store[p], store'[p] >> \in Moves ]_vars

(* A payment whose processing has completed and been acknowledged on one   *)
(* queue is PROCESSING again under the delivery of the other queue.         *)
C36_Observed ==
  \E s \in settled, t \in tasks :
    /\ s.payment = t.payment /\ s.stage = "publishing" /\ s.outcome = "ok"
    /\ s.queue = "payments" /\ s.acks = 1
    /\ t.queue = paymentQueue /\ t.pc = "charging" /\ t.tag > s.tag
    /\ store[t.payment] = "PROCESSING"
    /\ \A x \in tasks : x = t


----------------------------------------------------------------------------
(* The failure of the payment.complete event after a successful charge.    *)

(* The deliveries of the work queue whose handling ended in the publish    *)
(* of the payment.complete event, that is, after the provider call         *)
(* succeeded.                                                               *)
ChargedDeliveries ==
  { s \in settled : s.queue = paymentQueue /\ s.stage = "publishing" }

(* C38, as stated: a delivery whose provider call succeeded is acked, and  *)
(* when its handling ends the payment is not FAILED on its account.         *)
C38_AsStated ==
  \A s \in ChargedDeliveries : s.outcome = "ok" /\ s.acks = 1

(* The provider call succeeded and the record was saved COMPLETED; the     *)
(* connection was lost before the event was published, the publish threw,  *)
(* and the payment is FAILED with its work message not acknowledged.        *)
C38_Observed ==
  \E s \in ChargedDeliveries :
    /\ s.outcome = "threw" /\ s.acks = 0
    /\ store[s.payment] = "FAILED"
    /\ tasks = {}
    /\ \A x \in settled : x.stage = "publishing" => x = s


----------------------------------------------------------------------------
(* The exit status after an uncaught exception or unhandled rejection.     *)

(* The shutdowns begun by the two error handlers of main.ts. *)
Crashes ==
  { c \in Shutdowns : c.signal \in { "uncaughtException", "unhandledRejection" } }

(* C39, as stated: once an error handler has begun a shutdown, the process *)
(* does not exit with status 0.                                             *)
C39_AsStated ==
  Crashes # {} => \A c \in Shutdowns : c.status # 0

(* The only shutdown is the one begun for an uncaught exception; app.close *)
(* and dataSource.destroy have settled, and gracefulShutdown itself has    *)
(* ended the process with status 0 before the handler's then-callback      *)
(* could call process.exit(1).                                              *)
C39_Observed ==
  \E c \in Crashes :
    /\ Shutdowns = { c } /\ c.signal = "uncaughtException"
    /\ c.pc = "done" /\ c.timer = "cleared" /\ c.status = 0
    /\ ChannelState(Cur, channel) = "closed"


----------------------------------------------------------------------------
(* What becomes of a processPaymentWithRetry request.                      *)

(* The dead-letter queue has accepted request s. *)
Recorded(s) ==
  \E d \in dlqLog :
    /\ d.method = s.method /\ d.correlationId = s.correlationId
    /\ d.replyTo = s.replyTo

(* C40, as stated: when the RPC server has finished handling a             *)
(* processPaymentWithRetry request, a response has been published to its   *)
(* replyTo queue or the request is recorded on the dead-letter queue.       *)
C40_AsStated ==
  \A s \in RetryRequests : Replies(s) # {} \/ Recorded(s)

(* A request has exhausted its retries and its handling has ended: nothing *)
(* was published for it, neither a response nor a dead-letter entry, the   *)
(* reply queue and the dead-letter queue are empty, and payment_rpc has no *)
(* consumer left.                                                           *)
C40_Observed ==
  \E s \in RetryRequests :
    /\ s.stage = "deadletter" /\ s.retries = maxRetries
    /\ Issued(s, "publish") = {} /\ ~Recorded(s)
    /\ ready["rpc_reply"] = << >> /\ ready["payment_processing.dlq"] = << >>
    /\ ~ \E k \in consuming : k.queue = "payment_rpc"
    /\ tasks = {}

============================================================================
